---------------------------- MODULE Spec2Model ----------------------------
(***************************************************************************)
(* Model of the design-token index of css-value2design-token:              *)
(*   src/src/core/normalize.ts  (normalizeCssValue, canonicalHex)          *)
(*   src/src/core/indexer.ts    (TokenIndex and its helper functions)      *)
(*   src/src/extension.ts       (the callers of build / onFileChange)      *)
(*                                                                         *)
(* Strings are TLA+ strings; a character is a string of length one.        *)
(* A file's content is described by the text facts the code reads: whether *)
(* csstree.parse throws on it, and otherwise the syntax tree the parser    *)
(* returns (node types, generated preludes and values, source offsets).    *)
(***************************************************************************)
EXTENDS Integers, Sequences, FiniteSets, TLC

(***************************************************************************)
(* Characters and strings                                                  *)
(***************************************************************************)
\* String.prototype.substring on 1-based inclusive positions, clamped to the
\* string as substring clamps its arguments
Sub(s, m, n) ==
    LET a == IF m < 1 THEN 1 ELSE m
        b == IF n > Len(s) THEN Len(s) ELSE n
    IN  IF a > b THEN "" ELSE SubSeq(s, a, b)

\* the character at position i, "" outside the string
Ch(s, i) == Sub(s, i, i)

\* the characters JavaScript's \s and String.prototype.trim treat as white
\* space, restricted to ASCII
WhiteSpace == {" ", "\t", "\n", "\r", "\f"}

\* the characters that the regular expression dot does not match
LineTerminators == {"\n", "\r"}

UpperLetters == "ABCDEFGHIJKLMNOPQRSTUVWXYZ"

LowerLetters == "abcdefghijklmnopqrstuvwxyz"

Digits == "0123456789"

UpperSet == {Ch(UpperLetters, i) : i \in 1..26}

LowerSet == {Ch(LowerLetters, i) : i \in 1..26}

DigitSet == {Ch(Digits, i) : i \in 1..10}

HexDigitSet ==
    DigitSet \cup {Ch(LowerLetters, i) : i \in 1..6}
             \cup {Ch(UpperLetters, i) : i \in 1..6}

\* the lower-case letter of each upper-case letter
LowerOf ==
    [c \in UpperSet |->
        Ch(LowerLetters, CHOOSE i \in 1..26 : Ch(UpperLetters, i) = c)]

\* the value of each digit
DigitValOf ==
    [c \in DigitSet |-> (CHOOSE i \in 1..10 : Ch(Digits, i) = c) - 1]

IsUpper(c) == c \in UpperSet

IsLower(c) == c \in LowerSet

IsDigit(c) == c \in DigitSet

IsHexDigit(c) == c \in HexDigitSet

\* [a-zA-Z0-9-_] of the variable-reference patterns
IsIdentChar(c) == IsUpper(c) \/ IsLower(c) \/ IsDigit(c) \/ c \in {"-", "_"}

\* \w, used by the word boundary \b
IsWordChar(c) == IsUpper(c) \/ IsLower(c) \/ IsDigit(c) \/ c = "_"

LowerCh(c) == IF IsUpper(c) THEN LowerOf[c] ELSE c

RECURSIVE toLowerCase(_)
toLowerCase(s) ==
    IF s = "" THEN "" ELSE LowerCh(Ch(s, 1)) \o toLowerCase(Sub(s, 2, Len(s)))

AllChars(s, P(_)) == \A i \in 1..Len(s) : P(Ch(s, i))

IsWs(c) == c \in WhiteSpace

\* index of the first character at or after i that is not white space
\* (Len(s) + 1 when there is none)
RECURSIVE SkipWs(_, _)
SkipWs(s, i) ==
    IF i <= Len(s) /\ IsWs(Ch(s, i)) THEN SkipWs(s, i + 1) ELSE i

\* index of the last character at or before i that is not white space
\* (0 when there is none)
RECURSIVE SkipWsBack(_, _)
SkipWsBack(s, i) ==
    IF i >= 1 /\ IsWs(Ch(s, i)) THEN SkipWsBack(s, i - 1) ELSE i

trim(s) == Sub(s, SkipWs(s, 1), SkipWsBack(s, Len(s)))

startsWith(s, p) == Len(s) >= Len(p) /\ Sub(s, 1, Len(p)) = p

endsWith(s, p) ==
    Len(s) >= Len(p) /\ Sub(s, Len(s) - Len(p) + 1, Len(s)) = p

\* s has p at position i
HasAt(s, p, i) == i >= 1 /\ i + Len(p) - 1 <= Len(s) /\ Sub(s, i, i + Len(p) - 1) = p

includes(s, p) == \E i \in 1..(Len(s) + 1) : HasAt(s, p, i)

\* s.replace(/\s+/g, rep) for rep a string without white space
RECURSIVE ReplaceWsRuns(_, _)
ReplaceWsRuns(s, rep) ==
    IF s = "" THEN ""
    ELSE IF IsWs(Ch(s, 1))
         THEN rep \o ReplaceWsRuns(Sub(s, SkipWs(s, 1), Len(s)), rep)
         ELSE Ch(s, 1) \o ReplaceWsRuns(Sub(s, 2, Len(s)), rep)

\* s.replace(/\s*,\s*/g, ","): scanning from the left, a white-space run
\* followed by a comma, or a comma, starts a match that also takes the
\* white space after the comma
RECURSIVE CollapseCommas(_)
CollapseCommas(s) ==
    IF s = "" THEN ""
    ELSE LET j == SkipWs(s, 1)
         IN  IF j <= Len(s) /\ Ch(s, j) = ","
             THEN "," \o CollapseCommas(Sub(s, SkipWs(s, j + 1), Len(s)))
             ELSE Ch(s, 1) \o CollapseCommas(Sub(s, 2, Len(s)))

(***************************************************************************)
(* Numbers of the dimension rule: Number(), Number.isInteger(),            *)
(* toFixed(4) and String() on a decimal literal digits[.digits].           *)
(* The value is held exactly, scaled by 10^4, rounded half up on the fifth *)
(* fractional digit.                                                       *)
(***************************************************************************)
DigitVal(c) == DigitValOf[c]

RECURSIVE NatOfDigits(_, _)
NatOfDigits(s, acc) ==
    IF s = "" THEN acc ELSE NatOfDigits(Sub(s, 2, Len(s)), acc * 10 + DigitVal(Ch(s, 1)))

RECURSIVE StringOfNat(_)
StringOfNat(n) ==
    IF n < 10 THEN Ch(Digits, n + 1)
    ELSE StringOfNat(n \div 10) \o Ch(Digits, (n % 10) + 1)

RECURSIVE StripTrailingZeros(_)
StripTrailingZeros(s) ==
    IF s # "" /\ Ch(s, Len(s)) = "0"
    THEN StripTrailingZeros(Sub(s, 1, Len(s) - 1))
    ELSE s

PadLeft4(s) == Sub("0000", 1, 4 - Len(s)) \o s

\* Number.isInteger(Number(int.frac))
IsIntegerLiteral(frac) == AllChars(frac, LAMBDA c : c = "0")

\* Number(int.frac).toFixed(4), as the integer 10^4 times the rounded value
ToFixed4(int, frac) ==
    LET f4 == Sub(frac \o "0000", 1, 4)
        up == IF Len(frac) >= 5 /\ DigitVal(Ch(frac, 5)) >= 5 THEN 1 ELSE 0
    IN  NatOfDigits(int, 0) * 10000 + NatOfDigits(f4, 0) + up

\* String(Number(x.toFixed(4))) for x scaled by 10^4
StringOfFixed4(n) ==
    IF n % 10000 = 0 THEN StringOfNat(n \div 10000)
    ELSE StringOfNat(n \div 10000) \o "."
            \o StripTrailingZeros(PadLeft4(StringOfNat(n % 10000)))

(***************************************************************************)
(* normalize.ts                                                            *)
(***************************************************************************)
\* the result null of normalizeCssValue; a string result s is <<s>>
Null == <<>>

Some(s) == <<s>>

\* JavaScript's !x for x a string or null
Falsy(r) == r = Null \/ r[1] = ""

\* the capture group of /^var\(\s*(--[a-zA-Z0-9-_]+)(?:\s*,\s*.*)?\s*\)$/i
\* on s, or Null when s does not match
RECURSIVE IdentEnd(_, _)
IdentEnd(s, i) ==
    IF i <= Len(s) /\ IsIdentChar(Ch(s, i)) THEN IdentEnd(s, i + 1) ELSE i - 1

VarMatch(s) ==
    LET n  == Len(s)
        i0 == SkipWs(s, 5)
        j  == IdentEnd(s, i0 + 2)
        \* what stands between the identifier and the closing parenthesis
        rest  == Sub(s, j + 1, n - 1)
        k     == SkipWs(rest, 1)
        \* after the comma: \s* .* \s*
        fb    == trim(Sub(rest, k + 1, Len(rest)))
    IN  IF /\ n >= 8
           /\ toLowerCase(Sub(s, 1, 4)) = "var("
           /\ Ch(s, n) = ")"
           /\ HasAt(s, "--", i0)
           /\ j >= i0 + 2
           /\ j <= n - 1
           /\ \/ k > Len(rest)
              \/ /\ Ch(rest, k) = ","
                 /\ AllChars(fb, LAMBDA c : c \notin LineTerminators)
        THEN Some(Sub(s, i0, j))
        ELSE Null

\* /^#([0-9a-f]{3,4}|[0-9a-f]{6}|[0-9a-f]{8})$/i
IsHex(s) ==
    /\ Len(s) \in {4, 5, 7, 9}
    /\ Ch(s, 1) = "#"
    /\ AllChars(Sub(s, 2, Len(s)), IsHexDigit)

RECURSIVE DoubleEach(_)
DoubleEach(s) ==
    IF s = "" THEN "" ELSE Ch(s, 1) \o Ch(s, 1) \o DoubleEach(Sub(s, 2, Len(s)))

canonicalHexThreeOnly(h) ==
    LET s == toLowerCase(h)
    IN  IF Len(s) = 4 THEN "#" \o DoubleEach(Sub(s, 2, Len(s))) ELSE s

canonicalHex(h) ==
    LET s == toLowerCase(h)
    IN  IF Len(s) = 4 \/ Len(s) = 5 THEN "#" \o DoubleEach(Sub(s, 2, Len(s))) ELSE s

\* /^(rgb|rgba|hsl|hsla)\(/i
IsFunctionalColor(s) ==
    LET l == toLowerCase(s)
    IN  \E p \in {"rgb(", "rgba(", "hsl(", "hsla("} : startsWith(l, p)

Units == {"px", "rem", "em", "%", "vh", "vw", "dvh", "svh", "lvh"}

\* the digits of the integer part: the longest run of digits at the start
RECURSIVE DigitsEnd(_, _)
DigitsEnd(s, i) ==
    IF i <= Len(s) /\ IsDigit(Ch(s, i)) THEN DigitsEnd(s, i + 1) ELSE i - 1

\* /^\d+(\.\d+)?(px|rem|em|%|vh|vw|dvh|svh|lvh)$/i and the split of
\* /^(\d+(?:\.\d+)?)([a-z%]+)$/i: <<int, frac, unit>> or <<>>
DimensionMatch(s) ==
    LET a == DigitsEnd(s, 1)
        hasFrac == a >= 1 /\ Ch(s, a + 1) = "." /\ DigitsEnd(s, a + 2) >= a + 2
        b == IF hasFrac THEN DigitsEnd(s, a + 2) ELSE a
        unit == Sub(s, b + 1, Len(s))
    IN  IF a >= 1 /\ toLowerCase(unit) \in Units
        THEN << Sub(s, 1, a),
                IF hasFrac THEN Sub(s, a + 2, b) ELSE "",
                unit >>
        ELSE <<>>

MultiPartWords ==
    {"box-shadow", "drop-shadow", "linear-gradient", "radial-gradient", "inset"}

IsMultiPart(s) ==
    \/ \E w \in MultiPartWords : includes(toLowerCase(s), w)
    \/ includes(s, ",")

\* the rules of normalizeCssValue on the trimmed value s, given the result
\* varMatch of the var() match and the result m of the dimension match
normalizeRules(s, varMatch, m) ==
    IF varMatch # Null THEN Some("var(" \o varMatch[1] \o ")")
    ELSE IF IsHex(s) THEN Some(canonicalHex(s))
    ELSE IF IsFunctionalColor(s)
         THEN Some(toLowerCase(ReplaceWsRuns(s, "")))
    ELSE IF m # <<>>
         THEN Some((IF IsIntegerLiteral(m[2])
                    THEN StringOfNat(NatOfDigits(m[1], 0))
                    ELSE StringOfFixed4(ToFixed4(m[1], m[2])))
                   \o toLowerCase(m[3]))
    ELSE IF IsMultiPart(s)
         THEN Some(trim(ReplaceWsRuns(CollapseCommas(s), " ")))
    ELSE Some(s)

\* normalizeCssValue after `const s = v.trim()`
normalizeTrimmed(s) == normalizeRules(s, VarMatch(s), DimensionMatch(s))

normalizeCssValue(v) == IF v = "" THEN Null ELSE normalizeTrimmed(trim(v))

(***************************************************************************)
(* Class whitelist: the pattern strings of the configuration and           *)
(* new RegExp(pattern) (indexer.ts, getClassWhitelist).                    *)
(* The patterns of the model are of the form  ^? (char | \char)* $?  , or  *)
(* hold an unescaped parenthesis that is never closed, on which            *)
(* new RegExp throws a SyntaxError.                                        *)
(***************************************************************************)
\* the pattern without its escapes: \c becomes c; a lone "(" stays
RECURSIVE Unescape(_)
Unescape(p) ==
    IF p = "" THEN ""
    ELSE IF Ch(p, 1) = "\\" THEN Ch(p, 2) \o Unescape(Sub(p, 3, Len(p)))
    ELSE Ch(p, 1) \o Unescape(Sub(p, 2, Len(p)))

\* number of unescaped occurrences of the character c in p
RECURSIVE CountUnescaped(_, _)
CountUnescaped(p, c) ==
    IF p = "" THEN 0
    ELSE IF Ch(p, 1) = "\\" THEN CountUnescaped(Sub(p, 3, Len(p)), c)
    ELSE (IF Ch(p, 1) = c THEN 1 ELSE 0) + CountUnescaped(Sub(p, 2, Len(p)), c)

\* new RegExp(pattern) throws
RegExpThrows(p) == CountUnescaped(p, "(") # CountUnescaped(p, ")")

\* new RegExp(pattern): the compiled matcher
RegExpNew(p) ==
    LET anchoredStart == startsWith(p, "^")
        p1 == IF anchoredStart THEN Sub(p, 2, Len(p)) ELSE p
        anchoredEnd == endsWith(p1, "$") /\ ~endsWith(p1, "\\$")
        p2 == IF anchoredEnd THEN Sub(p1, 1, Len(p1) - 1) ELSE p1
    IN  [start |-> anchoredStart, end |-> anchoredEnd, text |-> Unescape(p2)]

\* regex.test(s)
RegExpTest(regex, s) ==
    \E i \in 1..(Len(s) + 1) :
        /\ HasAt(s, regex.text, i)
        /\ regex.start => i = 1
        /\ regex.end => i + Len(regex.text) - 1 = Len(s)

(***************************************************************************)
(* Selector classifier (indexer.ts, isAllowedSelector / isClassAllowed)    *)
(***************************************************************************)
\* selector.split(',')
RECURSIVE SplitComma(_, _)
SplitComma(s, acc) ==
    IF s = "" THEN <<acc>>
    ELSE IF Ch(s, 1) = "," THEN <<acc>> \o SplitComma(Sub(s, 2, Len(s)), "")
    ELSE SplitComma(Sub(s, 2, Len(s)), acc \o Ch(s, 1))

\* /^word(\b|$)/ for a word that ends in a word character
StartsWithWord(s, word) ==
    startsWith(s, word) /\ ~IsWordChar(Ch(s, Len(word) + 1))

\* /\[data-theme\b/i
HasDataTheme(s) ==
    LET l == toLowerCase(s)
    IN  \E i \in 1..Len(l) :
            HasAt(l, "[data-theme", i) /\ ~IsWordChar(Ch(l, i + 11))

isClassAllowed(selector, classWhitelist) ==
    IF Len(classWhitelist) = 0 THEN FALSE
    ELSE \E i \in 1..Len(classWhitelist) : RegExpTest(classWhitelist[i], selector)

\* isAllowedSelector that accepts a group as soon as one part is accepted
isAllowedSelectorSomePart(selector, classWhitelist) ==
    LET parts == SplitComma(selector, "")
    IN  \E i \in 1..Len(parts) :
            LET s == trim(parts[i])
            IN  \/ StartsWithWord(s, ":root")
                \/ StartsWithWord(s, "html")
                \/ HasDataTheme(s)
                \/ isClassAllowed(s, classWhitelist)

isAllowedSelector(selector, classWhitelist) ==
    LET parts == SplitComma(selector, "")
    IN  \A i \in 1..Len(parts) :
            LET s == trim(parts[i])
            IN  \/ StartsWithWord(s, ":root")
                \/ StartsWithWord(s, "html")
                \/ HasDataTheme(s)
                \/ StartsWithWord(s, "html") /\ HasDataTheme(s)
                \/ isClassAllowed(s, classWhitelist)

(***************************************************************************)
(* Syntax trees (css-tree): the nodes the walker looks at.                 *)
(*   prelude  the text csstree.generate gives for the node's prelude       *)
(*   value    the text csstree.generate gives for a declaration's value    *)
(*   offset   loc.start.offset of a declaration                            *)
(***************************************************************************)
Declaration(property, value, offset) ==
    [type |-> "Declaration", name |-> "", prelude |-> "", children |-> <<>>,
     property |-> property, value |-> value, offset |-> offset]

Rule(prelude, children) ==
    [type |-> "Rule", name |-> "", prelude |-> prelude, children |-> children,
     property |-> "", value |-> "", offset |-> 0]

Atrule(name, prelude, children) ==
    [type |-> "Atrule", name |-> name, prelude |-> prelude,
     children |-> children, property |-> "", value |-> "", offset |-> 0]

isCustomProp(decl) == decl.property # "" /\ startsWith(decl.property, "--")

\* extractVarReference that does not recognise a reference with a fallback
extractVarReferenceNoFallback(value) ==
    IF includes(value, ",") THEN Null ELSE VarMatch(value)

\* the result undefined of extractVarReference is Null
extractVarReference(value) == VarMatch(value)

(***************************************************************************)
(* The reverse map: a JavaScript Map from normalized value to TokenHit[],  *)
(* held as the sequence of its entries in insertion order.                 *)
(***************************************************************************)
MapHas(m, k) == \E i \in 1..Len(m) : m[i].key = k

\* this.map.get(k) ?? []
MapGet(m, k) ==
    IF MapHas(m, k) THEN m[CHOOSE i \in 1..Len(m) : m[i].key = k].hits ELSE <<>>

\* this.map.set(k, arr): an existing key keeps its place
MapSet(m, k, arr) ==
    IF MapHas(m, k)
    THEN [i \in 1..Len(m) |-> IF m[i].key = k THEN [key |-> k, hits |-> arr] ELSE m[i]]
    ELSE Append(m, [key |-> k, hits |-> arr])

MapKeys(m) == {m[i].key : i \in 1..Len(m)}

\* this.map.delete(k)
MapDelete(m, k) == SelectSeq(m, LAMBDA e : e.key # k)

\* the positions <<bucket, index>> of the records of the map
HitPositions(m) ==
    UNION {{<<i, j>> : j \in 1..Len(m[i].hits)} : i \in 1..Len(m)}

HitAt(m, pos) == m[pos[1]].hits[pos[2]]

KeyAt(m, pos) == m[pos[1]].key

SameTripleNoOffset(x, hit) ==
    x.file = hit.file /\ x.name = hit.name

SameTriple(x, hit) ==
    x.file = hit.file /\ x.name = hit.name /\ x.offset = hit.offset

\* arr.some(x => x.file === hit.file && x.name === hit.name && ...)
SomeSameTriple(arr, hit) == \E i \in 1..Len(arr) : SameTriple(arr[i], hit)

(***************************************************************************)
(* TokenIndex: insertion (indexer.ts, addHit / addHitFromDecl /            *)
(* collectFromRule)                                                        *)
(***************************************************************************)
\* arr.push(hit); this.map.set(key, arr), unless arr holds a record with
\* the file, name and offset of hit
pushUnlessPresent(m, key, hit) ==
    IF ~SomeSameTriple(MapGet(m, key), hit)
    THEN MapSet(m, key, Append(MapGet(m, key), hit))
    ELSE m

\* if (!norm) return; then the insertion under norm
addUnder(m, norm, hit) ==
    IF Falsy(norm) THEN m ELSE pushUnlessPresent(m, norm[1], hit)

\* addHit that files the record under the value as written
addHitRawKey(m, hit) ==
    addUnder(m, IF Falsy(normalizeCssValue(hit.value)) THEN Null
                ELSE Some(hit.value), hit)

addHit(m, hit) == addUnder(m, normalizeCssValue(hit.value), hit)

\* sourceType that takes only the bare marker 'theme' for a theme block
sourceTypeOfBareTheme(source) ==
    IF source = "theme" THEN "theme"
    ELSE IF source = ":root" \/ source = "html" THEN "root" ELSE "scoped"

\* 'theme' | 'root' | 'scoped' of addHitFromDecl
sourceTypeOf(source) ==
    IF source = "theme" \/ startsWith(source, "theme ") THEN "theme"
    ELSE IF source = ":root" \/ source = "html" THEN "root" ELSE "scoped"

addHitFromDecl(m, decl, file, source) ==
    addUnder(m, normalizeCssValue(trim(decl.value)),
             [name |-> decl.property, value |-> trim(decl.value),
              file |-> file, offset |-> decl.offset, selector |-> source,
              source |-> sourceTypeOf(source),
              referencedVar |-> extractVarReference(trim(decl.value))])

\* the hits that collectFromRule hands to its callback, in order
RECURSIVE collectFromRule(_, _, _)
collectFromRule(children, selector, file) ==
    IF children = <<>> THEN <<>>
    ELSE LET n == Head(children)
             value == trim(n.value)
         IN  (IF n.type = "Declaration" /\ isCustomProp(n)
              THEN << [name |-> n.property, value |-> value, file |-> file,
                       offset |-> n.offset, selector |-> selector,
                       source |-> IF selector = ":root" \/ selector = "html"
                                  THEN "root" ELSE "scoped",
                       referencedVar |-> extractVarReference(value)] >>
              ELSE <<>>)
             \o collectFromRule(Tail(children), selector, file)

\* the callback (h) => { this.addHit(h); tokenCount++; } on each hit
RECURSIVE AddCollected(_, _)
AddCollected(st, hits) ==
    IF hits = <<>> THEN st
    ELSE AddCollected([map |-> addHit(st.map, Head(hits)),
                       tokenCount |-> st.tokenCount + 1], Tail(hits))

\* if (isAllowedSelector(selector, classWhitelist)) collectFromRule(...)
VisitRule(st, rule, file, classWhitelist) ==
    LET selector == trim(rule.prelude)
    IN  IF isAllowedSelector(selector, classWhitelist)
        THEN AddCollected(st, collectFromRule(rule.children, selector, file))
        ELSE st

\* a Rule node: VisitRule; any other node: nothing
VisitIfRule(st, node, file, classWhitelist) ==
    IF node.type = "Rule" THEN VisitRule(st, node, file, classWhitelist)
    ELSE st

\* a custom-property declaration directly inside a theme at-rule
VisitThemeDecl(st, child, selector, file) ==
    IF child.type = "Declaration" /\ isCustomProp(child)
    THEN [map |-> addHitFromDecl(st.map, child, file, selector),
          tokenCount |-> st.tokenCount + 1]
    ELSE st

\* at.block.children.forEach(child => ...) of a theme at-rule
RECURSIVE VisitThemeChildren(_, _, _, _, _)
VisitThemeChildren(st, children, selector, file, classWhitelist) ==
    IF children = <<>> THEN st
    ELSE VisitThemeChildren(
             VisitIfRule(VisitThemeDecl(st, Head(children), selector, file),
                         Head(children), file, classWhitelist),
             Tail(children), selector, file, classWhitelist)

\* `theme ${prelude}` or 'theme'
themeSelector(prelude) ==
    IF prelude # "" THEN "theme " \o prelude ELSE "theme"

\* a theme at-rule: its children; any other node: nothing
VisitIfTheme(st, node, file, classWhitelist) ==
    IF node.type = "Atrule" /\ node.name = "theme"
    THEN VisitThemeChildren(st, node.children,
                            themeSelector(trim(node.prelude)), file,
                            classWhitelist)
    ELSE st

\* the enter callback of csstree.walk
Enter(st, node, file, classWhitelist) ==
    VisitIfRule(VisitIfTheme(st, node, file, classWhitelist),
                node, file, classWhitelist)

\* csstree.walk(ast, {enter}): every node, parents before children,
\* siblings in source order
RECURSIVE Walk(_, _, _, _)
Walk(st, nodes, file, classWhitelist) ==
    IF nodes = <<>> THEN st
    ELSE Walk(Walk(Enter(st, Head(nodes), file, classWhitelist),
                   Head(nodes).children, file, classWhitelist),
              Tail(nodes), file, classWhitelist)

\* patterns.map(pattern => new RegExp(pattern))
getClassWhitelistThrows(patterns) ==
    \E i \in 1..Len(patterns) : RegExpThrows(patterns[i])

getClassWhitelist(patterns) ==
    [i \in 1..Len(patterns) |-> RegExpNew(patterns[i])]

\* removeFileEntries that leaves the map as it is
removeFileEntriesMapKeep(m, file) == m

\* removeFileEntries that deletes every bucket holding a record of the file
removeFileEntriesMapWholeBucket(m, file) ==
    SelectSeq(m, LAMBDA e : \A i \in 1..Len(e.hits) : e.hits[i].file # file)

\* the loop of removeFileEntries: every bucket filtered, empty buckets deleted
removeFileEntriesMap(m, file) ==
    LET filtered == [i \in 1..Len(m) |->
                        [key |-> m[i].key,
                         hits |-> SelectSeq(m[i].hits, LAMBDA x : x.file # file)]]
    IN  SelectSeq(filtered, LAMBDA e : Len(e.hits) # 0)

findByValue(m, normalized) == MapGet(m, normalized)

\* for (const hits of this.map.values()) for (const hit of hits)
RECURSIVE HitsInOrder(_)
HitsInOrder(m) ==
    IF m = <<>> THEN <<>> ELSE Head(m).hits \o HitsInOrder(Tail(m))

findByReferencedVar(m, varName) ==
    SelectSeq(HitsInOrder(m), LAMBDA hit : hit.referencedVar = Some(varName))

(***************************************************************************)
(* The environment: files, their contents, the configuration               *)
(***************************************************************************)
FileA == "/ws/tokens/a.css"

FileB == "/ws/tokens/b.css"

FileC == "/ws/src/c.css"

Files == {FileA, FileB, FileC}

\* the files the configured source patterns match when they exist
SourceFiles == {FileA, FileB}

\* the values of the setting index.classWhitelist
WhitelistConfigs == { <<>>, <<"^\\.dark$">>, <<"^\\.theme-", "(">> }

\* File contents, named.  parseThrows: csstree.parse throws on the text;
\* ast: the children of the StyleSheet node it returns otherwise.
ContentOf(v) ==
    CASE v = "x1"  -> \* :root { --x: #123456; }
           [parseThrows |-> FALSE, ast |-> <<
              Rule(":root", << Declaration("--x", "#123456", 10) >>) >>]
      [] v = "x2"  -> \* :root { --x: #ABC; }
           [parseThrows |-> FALSE, ast |-> <<
              Rule(":root", << Declaration("--x", "#ABC", 10) >>) >>]
      [] v = "y"   -> \* :root { --y: #654321; color: red }
           [parseThrows |-> FALSE, ast |-> <<
              Rule(":root", << Declaration("--y", "#654321", 10),
                               Declaration("color", "red", 26) >>) >>]
      [] v = "bad" -> \* a text on which the parser throws
           [parseThrows |-> TRUE, ast |-> <<>>]
      [] v = "cls" -> \* .dark { --x: #123456; } .card, :root { --z: 1px; }
                      \* :root, html { --g: #1E40AF; }
                      \* html .card { --k: #654321; }
                      \* [data-theme="dark"] { --d: #000; }
           [parseThrows |-> FALSE, ast |-> <<
              Rule(".dark", << Declaration("--x", "#123456", 10) >>),
              Rule(".card,:root", << Declaration("--z", "1px", 40) >>),
              Rule(":root,html", << Declaration("--g", "#1E40AF", 70) >>),
              Rule("html .card", << Declaration("--k", "#654321", 100) >>),
              Rule("[data-theme=\"dark\"]",
                   << Declaration("--d", "#000", 130) >>) >>]
      [] v = "thm" -> \* @theme inline { --p: var(--x, 1px); --e: ;
                      \*                 :root { --q: 16.0px; } }
           [parseThrows |-> FALSE, ast |-> <<
              Atrule("theme", "inline", <<
                 Declaration("--p", "var(--x,1px)", 18),
                 Declaration("--e", "", 40),
                 Rule(":root", << Declaration("--q", "16.0px", 58) >>) >>),
              \* @theme { --t: #8B5CF6; --u: var(--t); }
              Atrule("theme", "", <<
                 Declaration("--t", "#8B5CF6", 80),
                 Declaration("--u", "var(--t)", 95) >>) >>]
      [] v = "plain" -> \* body { margin: 0; }
           [parseThrows |-> FALSE, ast |-> <<
              Rule("body", << Declaration("margin", "0", 7) >>) >>]
      [] v = "dup" -> \* :root { --a: #123456; } html { --a: #123456; }
           [parseThrows |-> FALSE, ast |-> <<
              Rule(":root", << Declaration("--a", "#123456", 10) >>),
              Rule("html", << Declaration("--a", "#123456", 36) >>) >>]

Contents == {"x1", "x2", "y", "bad", "cls", "thm", "dup", "plain"}

\* the contents each file takes in the model
Versions(f) ==
    CASE f = FileA -> {"x1", "x2", "bad", "thm"}
      [] f = FileB -> {"dup", "cls", "plain"}
      [] f = FileC -> {"x1"}

\* what each file holds when the extension starts, "" for a missing file
InitialContents(f) ==
    CASE f = FileA -> {"", "x1"}
      [] f = FileB -> {"dup"}
      [] f = FileC -> {""}

(***************************************************************************)
(* Bounds                                                                  *)
(***************************************************************************)
\* concurrent calls of build / onFileChange
NProcs == 2

\* calls started in one behaviour
MaxOps == 2

\* file writes and deletions in one behaviour
MaxWrites == 1

Procs == 1..NProcs

(***************************************************************************)
(* State                                                                   *)
(***************************************************************************)
VARIABLES
    map,            \* TokenIndex.map
    ready,          \* TokenIndex.ready
    mtimes,         \* TokenIndex.mtimes, a function on the stored paths
    fileInfos,      \* TokenIndex.fileInfos, a function on the stored paths
    disk,           \* file system: per file, existence, content, mtime
    clock,          \* the time of the last write
    classWhitelist, \* the setting index.classWhitelist
    pc,             \* per call: where it is suspended
    op,             \* per call: "build" or "change"
    files,          \* per call: the files to index (build: resolved sources)
    idx,            \* per call: position in files
    io,             \* per call: the result of the I/O it awaits
    statMtime,      \* per call: stat.mtimeMs of the file being indexed
    seen,           \* per call: what indexFile met for each file so far
    solo,           \* per call: no other call was in flight during it
    started,        \* number of calls started
    before,         \* history: the index and the disk when the latest call
                    \* started, and which call it was
    clean,          \* history: the latest call is a build that started with
                    \* no call in flight, and no file changed since
    arg,            \* a direct call of a pure function: its argument
    result,         \* a direct call of a pure function: what it returned
    returned        \* the array findByValue returned to the command, and
                    \* whether it is the array the map holds under the key

vars == <<map, ready, mtimes, fileInfos, disk, clock, classWhitelist,
          pc, op, files, idx, io, statMtime, seen, solo, started, before,
          clean, arg, result, returned>>

indexVars == <<map, ready, mtimes, fileInfos>>

procVars == <<pc, op, files, idx, io, statMtime, seen, solo, started>>

histVars == <<before, clean>>

\* what no step of the index changes: the configuration, and the variables
\* of the direct calls
fixedVars == <<classWhitelist, arg, result>>

envVars == <<disk, clock, fixedVars>>

EmptyFn == [f \in {} |-> 0]

NoIO == [ok |-> FALSE, mtime |-> 0, content |-> ""]

\* no direct call
NoArg == [fn |-> "none"]

\* the command has not looked anything up
NoReturn == [key |-> "", hits |-> <<>>, bucket |-> FALSE]

Missing == [exists |-> FALSE, content |-> "", mtime |-> 0]

Inactive(p) == pc[p] \in {"idle", "done", "failed"}

Active(p) == ~Inactive(p)

Init ==
    /\ map = <<>>
    /\ ready = FALSE
    /\ mtimes = EmptyFn
    /\ fileInfos = EmptyFn
    /\ \E c \in [Files -> Contents \cup {""}] :
          /\ \A f \in Files : c[f] \in InitialContents(f)
          /\ disk = [f \in Files |->
                        IF c[f] = "" THEN Missing
                        ELSE [exists |-> TRUE, content |-> c[f], mtime |-> 1]]
    /\ clock = 1
    /\ classWhitelist \in WhitelistConfigs
    /\ pc = [p \in Procs |-> "idle"]
    /\ op = [p \in Procs |-> "none"]
    /\ files = [p \in Procs |-> <<>>]
    /\ idx = [p \in Procs |-> 0]
    /\ io = [p \in Procs |-> NoIO]
    /\ statMtime = [p \in Procs |-> 0]
    /\ seen = [p \in Procs |-> EmptyFn]
    /\ solo = [p \in Procs |-> FALSE]
    /\ started = 0
    /\ before = [files |-> {}, rebuild |-> FALSE, map |-> <<>>, last |-> 0,
                 disk |-> disk]
    /\ clean = FALSE
    /\ arg = NoArg
    /\ result = <<>>
    /\ returned = NoReturn

(***************************************************************************)
(* Environment steps                                                       *)
(***************************************************************************)
WriteFile(f, v) ==
    /\ clock <= MaxWrites
    /\ v \in Versions(f)
    /\ clock' = clock + 1
    /\ disk' = [disk EXCEPT ![f] =
                   [exists |-> TRUE, content |-> v, mtime |-> clock + 1]]
    /\ clean' = FALSE
    /\ UNCHANGED <<indexVars, procVars, fixedVars, before, returned>>

DeleteFile(f) ==
    /\ clock <= MaxWrites
    /\ disk[f].exists
    /\ clock' = clock + 1
    /\ disk' = [disk EXCEPT ![f] = Missing]
    /\ clean' = FALSE
    /\ UNCHANGED <<indexVars, procVars, fixedVars, before, returned>>

\* the files that have a record, a modification time or a summary
FilesWithEntries ==
    {HitAt(map, pos).file : pos \in HitPositions(map)}
        \cup DOMAIN mtimes \cup DOMAIN fileInfos

(***************************************************************************)
(* Calls.  A call that starts puts the calls that have returned back to    *)
(* idle, so that pc[p] = "done" holds exactly from the return of call p    *)
(* to the start of the next call.                                          *)
(***************************************************************************)
StartCall(p, kind, fs, first) ==
    /\ Inactive(p)
    /\ \A q \in Procs : q < p => Active(q)
    /\ started < MaxOps
    /\ started' = started + 1
    /\ pc' = [q \in Procs |-> IF q = p THEN first
                              ELSE IF Inactive(q) THEN "idle" ELSE pc[q]]
    /\ op' = [q \in Procs |-> IF q = p THEN kind
                              ELSE IF Inactive(q) THEN "none" ELSE op[q]]
    /\ files' = [q \in Procs |-> IF q = p THEN fs
                                 ELSE IF Inactive(q) THEN <<>> ELSE files[q]]
    /\ idx' = [q \in Procs |-> IF q = p THEN 1
                               ELSE IF Inactive(q) THEN 0 ELSE idx[q]]
    /\ io' = [q \in Procs |-> IF q = p \/ Inactive(q) THEN NoIO ELSE io[q]]
    /\ statMtime' = [q \in Procs |-> IF q = p \/ Inactive(q) THEN 0
                                     ELSE statMtime[q]]
    /\ seen' = [q \in Procs |-> IF q = p \/ Inactive(q) THEN EmptyFn
                                ELSE seen[q]]
    /\ solo' = [q \in Procs |-> IF q = p THEN \A r \in Procs : Inactive(r)
                                ELSE FALSE]
    /\ LET rebuild == /\ kind = "build"
                      /\ clean
                      /\ \E q \in Procs :
                            /\ pc[q] \in {"done", "failed"}
                            /\ op[q] = "build"
                            /\ solo[q]
       IN  before' = [files |-> FilesWithEntries, rebuild |-> rebuild,
                      map |-> IF rebuild THEN map ELSE <<>>,
                      last |-> p, disk |-> disk]
    /\ clean' = (kind = "build" /\ \A r \in Procs : Inactive(r))

\* the array returned earlier after this.map.clear(), and after
\* removeFileEntries, which stores a new array (arr.filter) under every key
\* or deletes the key: the map no longer holds the array
replaced(r) == [r EXCEPT !.bucket = FALSE]

\* the array returned earlier after insertions that left the map m:
\* arr.push(hit) appends to the array the map holds, in place
pushed(r, m) == IF r.bucket THEN [r EXCEPT !.hits = MapGet(m, r.key)] ELSE r

\* build() that does not clear the modification times
BuildStartKeepMtimes(p) ==
    /\ StartCall(p, "build", <<>>, "glob")
    /\ map' = <<>>
    /\ fileInfos' = EmptyFn
    /\ returned' = replaced(returned)
    /\ UNCHANGED <<mtimes, ready, envVars>>

\* build() that does not clear the reverse map
BuildStartKeepMap(p) ==
    /\ StartCall(p, "build", <<>>, "glob")
    /\ mtimes' = EmptyFn
    /\ fileInfos' = EmptyFn
    /\ returned' = replaced(returned)
    /\ UNCHANGED <<map, ready, envVars>>

\* build(), up to the await of resolveSources()
BuildStart(p) ==
    /\ StartCall(p, "build", <<>>, "glob")
    /\ map' = <<>>
    /\ mtimes' = EmptyFn
    /\ fileInfos' = EmptyFn
    /\ returned' = replaced(returned)
    /\ UNCHANGED <<ready, envVars>>

\* removeFileEntries that forgets this.mtimes.delete(file)
removeFileEntriesKeepMtime(file) ==
    /\ map' = removeFileEntriesMap(map, file)
    /\ mtimes' = mtimes
    /\ fileInfos' = [f \in DOMAIN fileInfos \ {file} |-> fileInfos[f]]

\* removeFileEntries(file)
removeFileEntries(file) ==
    /\ map' = removeFileEntriesMap(map, file)
    /\ mtimes' = [f \in DOMAIN mtimes \ {file} |-> mtimes[f]]
    /\ fileInfos' = [f \in DOMAIN fileInfos \ {file} |-> fileInfos[f]]

\* onFileChange(file), up to the await of fs.stat in indexFile
ChangeStart(p, file) ==
    /\ StartCall(p, "change", <<file>>, "stat")
    /\ removeFileEntries(file)
    /\ returned' = replaced(returned)
    /\ UNCHANGED <<ready, envVars>>

\* a catch block that goes on with an empty tree instead of returning
tryParseSwallow(content) ==
    [threw |-> FALSE, ast |-> ContentOf(content).ast]

\* try { ast = csstree.parse(css, ...) } catch { return; }
tryParse(content) ==
    [threw |-> ContentOf(content).parseThrows, ast |-> ContentOf(content).ast]

\* the file a call is indexing
CurFile(p) == files[p][idx[p]]

\* a return that sets ready whoever the caller is
ReturnSetsReady(p) ==
    IF op[p] = "build" /\ idx[p] < Len(files[p])
    THEN /\ idx' = [idx EXCEPT ![p] = idx[p] + 1]
         /\ pc' = [pc EXCEPT ![p] = "stat"]
         /\ ready' = ready
    ELSE /\ idx' = idx
         /\ pc' = [pc EXCEPT ![p] = "done"]
         /\ ready' = TRUE

\* indexFile(file) has returned to its caller: onFileChange returns;
\* build goes on to the next file or sets ready and returns
Return(p) ==
    IF op[p] = "build" /\ idx[p] < Len(files[p])
    THEN /\ idx' = [idx EXCEPT ![p] = idx[p] + 1]
         /\ pc' = [pc EXCEPT ![p] = "stat"]
         /\ ready' = ready
    ELSE /\ idx' = idx
         /\ pc' = [pc EXCEPT ![p] = "done"]
         /\ ready' = IF op[p] = "build" THEN TRUE ELSE ready

Note(p, kind, content) ==
    seen' = [seen EXCEPT ![p] =
                [f \in DOMAIN seen[p] \cup {CurFile(p)} |->
                    IF f = CurFile(p) THEN [kind |-> kind, content |-> content]
                    ELSE seen[p][f]]]

\* the orders in which glob can return the files of S
Orders(S) ==
    {s \in [1..Cardinality(S) -> S] :
        \A i, j \in 1..Cardinality(S) : s[i] = s[j] => i = j}

\* resolveSources() has returned the matching files that exist
resolveSources(p) ==
    /\ pc[p] = "glob"
    /\ \E order \in Orders({f \in SourceFiles : disk[f].exists}) :
          /\ files' = [files EXCEPT ![p] = order]
          /\ IF order = <<>>
             THEN /\ ready' = TRUE
                  /\ pc' = [pc EXCEPT ![p] = "done"]
             ELSE /\ ready' = ready
                  /\ pc' = [pc EXCEPT ![p] = "stat"]
    /\ UNCHANGED <<map, mtimes, fileInfos, envVars, op, idx, io, statMtime,
                   seen, solo, started,
                   histVars, returned>>

\* fs.stat(file) completes in the file system
StatIO(p) ==
    /\ pc[p] = "stat"
    /\ pc' = [pc EXCEPT ![p] = "statDone"]
    /\ io' = [io EXCEPT ![p] =
                 IF disk[CurFile(p)].exists
                 THEN [ok |-> TRUE, mtime |-> disk[CurFile(p)].mtime,
                       content |-> ""]
                 ELSE NoIO]
    /\ UNCHANGED <<indexVars, envVars, op, files, idx, statMtime, seen, solo,
                   started,
                   histVars, returned>>

\* indexFile resumes after await fs.stat(file)
StatCont(p) ==
    /\ pc[p] = "statDone"
    /\ LET file == CurFile(p)
           prev == IF file \in DOMAIN mtimes THEN mtimes[file] ELSE 0
       IN  IF ~io[p].ok
           THEN /\ Note(p, "unreadable", "")
                /\ Return(p)
                /\ UNCHANGED statMtime
           ELSE IF prev # 0 /\ io[p].mtime <= prev
           THEN /\ Note(p, "skipped", "")
                /\ Return(p)
                /\ UNCHANGED statMtime
           ELSE /\ statMtime' = [statMtime EXCEPT ![p] = io[p].mtime]
                /\ pc' = [pc EXCEPT ![p] = "read"]
                /\ UNCHANGED <<seen, idx, ready>>
    /\ UNCHANGED <<map, mtimes, fileInfos, envVars, op, files, io, solo,
                   started,
                   histVars, returned>>

\* fs.readFile(file) completes in the file system
ReadIO(p) ==
    /\ pc[p] = "read"
    /\ pc' = [pc EXCEPT ![p] = "readDone"]
    /\ io' = [io EXCEPT ![p] =
                 IF disk[CurFile(p)].exists
                 THEN [ok |-> TRUE, mtime |-> 0,
                       content |-> disk[CurFile(p)].content]
                 ELSE NoIO]
    /\ UNCHANGED <<indexVars, envVars, op, files, idx, statMtime, seen, solo,
                   started,
                   histVars, returned>>

\* the walk has left st: the map it built, and this.fileInfos.set(file, ..)
storeWalk(p, file, st) ==
    /\ map' = st.map
    /\ fileInfos' = [f \in DOMAIN fileInfos \cup {file} |->
                        IF f = file
                        THEN [path |-> file,
                              tokenCount |-> st.tokenCount,
                              lastModified |-> statMtime[p]]
                        ELSE fileInfos[f]]

\* indexFile resumes after await fs.readFile(file) and runs to its end
indexFile(p) ==
    /\ pc[p] = "readDone"
    /\ LET file == CurFile(p)
           css  == tryParse(io[p].content)
       IN  IF ~io[p].ok
           THEN /\ Note(p, "unreadable", "")
                /\ Return(p)
                /\ UNCHANGED <<map, mtimes, fileInfos>>
           ELSE /\ mtimes' = [f \in DOMAIN mtimes \cup {file} |->
                                 IF f = file THEN statMtime[p] ELSE mtimes[f]]
                /\ IF css.threw
                   THEN /\ Note(p, "parseError", io[p].content)
                        /\ Return(p)
                        /\ UNCHANGED <<map, fileInfos>>
                   ELSE IF getClassWhitelistThrows(classWhitelist)
                   THEN /\ Note(p, "threw", io[p].content)
                        /\ pc' = [pc EXCEPT ![p] = "failed"]
                        /\ UNCHANGED <<map, fileInfos, idx, ready>>
                   ELSE /\ storeWalk(p, file,
                                     Walk([map |-> map, tokenCount |-> 0],
                                          css.ast, file,
                                          getClassWhitelist(classWhitelist)))
                        /\ Note(p, "indexed", io[p].content)
                        /\ Return(p)
    /\ returned' = pushed(returned, map')
    /\ UNCHANGED <<envVars, op, files, io, statMtime, solo, started,
                   histVars>>

Next ==
    \/ \E f \in Files, v \in Contents : WriteFile(f, v)
    \/ \E f \in Files : DeleteFile(f)
    \/ \E p \in Procs : BuildStart(p)
    \/ \E p \in Procs, f \in Files : ChangeStart(p, f)
    \/ \E p \in Procs : resolveSources(p)
    \/ \E p \in Procs : StatIO(p)
    \/ \E p \in Procs : StatCont(p)
    \/ \E p \in Procs : ReadIO(p)
    \/ \E p \in Procs : indexFile(p)

Spec == Init /\ [][Next]_vars

isReady == ready

\* the values the command looks up
LookupKeys == {"#123456", "#aabbcc", "1px"}

\* the command findAndReplace: ensureIndexReady() has returned, and
\* index.findByValue(norm) returns the array the map holds under norm, or a
\* new empty array
findAndReplace(norm) ==
    /\ isReady
    /\ returned = NoReturn
    /\ returned' = [key |-> norm, hits |-> findByValue(map, norm),
                    bucket |-> MapHas(map, norm)]
    /\ UNCHANGED <<indexVars, procVars, histVars, envVars>>

CommandNext ==
    \/ Next
    \/ \E norm \in LookupKeys : findAndReplace(norm)

CommandSpec == Init /\ [][CommandNext]_vars

(***************************************************************************)
(* indexer.ts: the comment directives above a declaration                  *)
(***************************************************************************)
\* the positions of the separator sep in s
SeparatorsOf(s, sep) == {i \in 1..Len(s) : Ch(s, i) = sep}

\* the position of the k-th separator of s; 0 before the first one and
\* Len(s) + 1 after the last one
Separator(s, sep, k) ==
    IF k = 0 THEN 0
    ELSE IF k > Cardinality(SeparatorsOf(s, sep)) THEN Len(s) + 1
    ELSE CHOOSE i \in SeparatorsOf(s, sep) :
            Cardinality({j \in SeparatorsOf(s, sep) : j < i}) = k - 1

\* s.split(sep) for a separator of one character
split(s, sep) ==
    [k \in 1..(Cardinality(SeparatorsOf(s, sep)) + 1) |->
        Sub(s, Separator(s, sep, k - 1) + 1, Separator(s, sep, k) - 1)]

\* index of the first white space character at or after i (Len(s) + 1 when
\* there is none): where a greedy \S+ that starts at i stops
RECURSIVE SkipNonWs(_, _)
SkipNonWs(s, i) ==
    IF i <= Len(s) /\ ~IsWs(Ch(s, i)) THEN SkipNonWs(s, i + 1) ELSE i

\* index of the last character a greedy .+ that starts at i takes: '.' does
\* not match a line terminator
RECURSIVE DotRunEnd(_, _)
DotRunEnd(s, i) ==
    IF i <= Len(s) /\ Ch(s, i) \notin LineTerminators
    THEN DotRunEnd(s, i + 1)
    ELSE i - 1

\* index of the last character a lazy .+? takes when it starts at i and is
\* followed by (?:\*\/|$): at least one character, then as few as possible
RECURSIVE LazyEnd(_, _)
LazyEnd(s, e) ==
    IF e >= Len(s) \/ HasAt(s, "*/", e + 1) THEN e ELSE LazyEnd(s, e + 1)

\* \s+(\S+) at position k of a trimmed line: <<first, last>> index of the
\* token, Null when it does not match (k = 0 stands for a failed prefix)
TokenAt(t, k) ==
    IF k >= 1 /\ IsWs(Ch(t, k)) /\ SkipWs(t, k) <= Len(t)
    THEN <<SkipWs(t, k), SkipNonWs(t, SkipWs(t, k)) - 1>>
    ELSE Null

\* \s+(.+) at position k of a trimmed line: the captured text, Null when it
\* does not match; white space in a trimmed line is followed by a character
\* that is not white space
RestAt(t, k) ==
    IF k >= 1 /\ IsWs(Ch(t, k)) /\ SkipWs(t, k) <= Len(t)
    THEN Some(Sub(t, SkipWs(t, k), DotRunEnd(t, SkipWs(t, k))))
    ELSE Null

\* \s+(.+?)(?:\*\/|$) at position k of a trimmed line: the captured text,
\* Null when it does not match (a line terminator stands in the way)
LazyRestAt(t, k) ==
    IF /\ k >= 1 /\ IsWs(Ch(t, k)) /\ SkipWs(t, k) <= Len(t)
       /\ DotRunEnd(t, SkipWs(t, k)) >= LazyEnd(t, SkipWs(t, k))
    THEN Some(Sub(t, SkipWs(t, k), LazyEnd(t, SkipWs(t, k))))
    ELSE Null

\* \/\/\s*@word at position i: the index after the word, 0 when no match
LineHead(t, i, word) ==
    IF HasAt(t, "//", i) /\ HasAt(t, word, SkipWs(t, i + 2))
    THEN SkipWs(t, i + 2) + Len(word)
    ELSE 0

\* @word at position i: the index after the word, 0 when no match
BlockHead(t, i, word) == IF HasAt(t, word, i) THEN i + Len(word) ELSE 0

\* String.prototype.match of a regular expression without the g flag: the
\* match at the leftmost position where there is one
FirstMatch(t, MatchAt(_, _)) ==
    IF \E i \in 1..Len(t) : MatchAt(t, i) # Null
    THEN MatchAt(t, CHOOSE i \in 1..Len(t) :
                        /\ MatchAt(t, i) # Null
                        /\ \A j \in 1..(i - 1) : MatchAt(t, j) = Null)
    ELSE Null

\* /\/\/\s*@alias\s+(\S+)\s+(.+)/ at position i: <<m[1], m[2]>>
CombinedLineAt(t, i) ==
    LET tok == TokenAt(t, LineHead(t, i, "@alias"))
    IN  IF tok # Null /\ RestAt(t, tok[2] + 1) # Null
        THEN <<Sub(t, tok[1], tok[2]), RestAt(t, tok[2] + 1)[1]>>
        ELSE Null

\* /\/\/\s*@alias\s+(\S+)$/ at position i: <<m[1]>>
AliasLineAt(t, i) ==
    LET tok == TokenAt(t, LineHead(t, i, "@alias"))
    IN  IF tok # Null /\ tok[2] = Len(t)
        THEN <<Sub(t, tok[1], tok[2])>>
        ELSE Null

\* /\/\/\s*@pattern\s+(.+)/ at position i: <<m[1]>>
PatternLineAt(t, i) == RestAt(t, LineHead(t, i, "@pattern"))

\* /\/\/\s*@rm-prefix\s+(\S+)(?:\s+(.+))?/ at position i: <<m[1], m[2]>>,
\* m[2] Null when the optional group did not take part
RmPrefixLineAt(t, i) ==
    LET tok == TokenAt(t, LineHead(t, i, "@rm-prefix"))
    IN  IF tok # Null
        THEN <<Sub(t, tok[1], tok[2]), RestAt(t, tok[2] + 1)>>
        ELSE Null

\* /@alias\s+(\S+)\s+(.+?)(?:\*\/|$)/ at position i: <<m[1], m[2]>>
CombinedBlockAt(t, i) ==
    LET tok == TokenAt(t, BlockHead(t, i, "@alias"))
    IN  IF tok # Null /\ LazyRestAt(t, tok[2] + 1) # Null
        THEN <<Sub(t, tok[1], tok[2]), LazyRestAt(t, tok[2] + 1)[1]>>
        ELSE Null

\* /@alias\s+(\S+)/ at position i: <<m[1]>>
AliasBlockAt(t, i) ==
    LET tok == TokenAt(t, BlockHead(t, i, "@alias"))
    IN  IF tok # Null THEN <<Sub(t, tok[1], tok[2])>> ELSE Null

\* /@pattern\s+(.+?)(?:\*\/|$)/ at position i: <<m[1]>>
PatternBlockAt(t, i) == LazyRestAt(t, BlockHead(t, i, "@pattern"))

\* /@rm-prefix\s+(\S+)(?:\s+(.+?))?(?:\*\/|$)/ at position i: the greedy
\* token runs to white space or to the end of the line, so what follows it
\* is either the optional group or the end; <<m[1], m[2]>>
RmPrefixBlockAt(t, i) ==
    LET tok == TokenAt(t, BlockHead(t, i, "@rm-prefix"))
    IN  IF tok # Null
        THEN <<Sub(t, tok[1], tok[2]), LazyRestAt(t, tok[2] + 1)>>
        ELSE Null

\* m.trim().replace(/\*\/$/, '').trim()
stripCommentEnd(m) ==
    IF endsWith(trim(m), "*/")
    THEN trim(Sub(trim(m), 1, Len(trim(m)) - 2))
    ELSE trim(m)

\* what the scan has found so far
NothingFound ==
    [alias |-> Null, pattern |-> Null, rmPrefix |-> Null,
     rmPrefixPattern |-> Null]

\* a line that starts with '//', the four matches tried in order; each sets
\* only what is not set yet
LineRules(found, combinedMatch, aliasMatch, patternMatch, rmPrefixMatch) ==
    IF combinedMatch # Null /\ Falsy(found.alias)
    THEN [found EXCEPT !.alias = Some(combinedMatch[1]),
                       !.pattern = Some(trim(combinedMatch[2]))]
    ELSE IF aliasMatch # Null /\ Falsy(found.alias)
    THEN [found EXCEPT !.alias = Some(aliasMatch[1])]
    ELSE IF patternMatch # Null /\ Falsy(found.pattern)
    THEN [found EXCEPT !.pattern = Some(trim(patternMatch[1]))]
    ELSE IF rmPrefixMatch # Null /\ Falsy(found.rmPrefix)
    THEN [found EXCEPT !.rmPrefix = Some(rmPrefixMatch[1]),
                       !.rmPrefixPattern =
                           IF Falsy(rmPrefixMatch[2]) THEN @
                           ELSE Some(trim(rmPrefixMatch[2][1]))]
    ELSE found

\* the alias, pattern and rm-prefix checks of a line that does not start
\* with '//', when the combined alias match did not end the iteration
BlockRules(t, found, aliasMatch, patternMatch, rmPrefixMatch) ==
    [alias |->
        IF includes(t, "@alias") /\ aliasMatch # Null /\ Falsy(found.alias)
        THEN Some(aliasMatch[1]) ELSE found.alias,
     pattern |->
        IF includes(t, "@pattern") /\ patternMatch # Null
            /\ Falsy(found.pattern)
        THEN Some(trim(patternMatch[1])) ELSE found.pattern,
     rmPrefix |->
        IF includes(t, "@rm-prefix") /\ rmPrefixMatch # Null
            /\ Falsy(found.rmPrefix)
        THEN Some(rmPrefixMatch[1]) ELSE found.rmPrefix,
     rmPrefixPattern |->
        IF includes(t, "@rm-prefix") /\ rmPrefixMatch # Null
            /\ Falsy(found.rmPrefix) /\ ~Falsy(rmPrefixMatch[2])
        THEN Some(stripCommentEnd(rmPrefixMatch[2][1]))
        ELSE found.rmPrefixPattern]

\* the line counts as a comment line: the scan goes on above it
IsCommentLine(t) ==
    startsWith(t, "//") \/ startsWith(t, "/*") \/ endsWith(t, "*/")
        \/ startsWith(t, "*")

\* a line that does not start with '//': what is found, and whether the
\* scan stops here
BlockCombined(t, found, combinedMatch) ==
    IF includes(t, "@alias") /\ combinedMatch # Null /\ Falsy(found.alias)
    THEN [found |-> [found EXCEPT
                        !.alias = Some(combinedMatch[1]),
                        !.pattern = Some(stripCommentEnd(combinedMatch[2]))],
          stop |-> FALSE]
    ELSE [found |-> BlockRules(t, found, FirstMatch(t, AliasBlockAt),
                               FirstMatch(t, PatternBlockAt),
                               FirstMatch(t, RmPrefixBlockAt)),
          stop |-> ~IsCommentLine(t)]

\* for (let i = declLine - 1; i >= 0; i--) on the 0-based line index i
RECURSIVE scanUp(_, _, _)
afterBlock(lines, i, r) ==
    IF r.stop THEN r.found ELSE scanUp(lines, i - 1, r.found)

scanLine(lines, i, found, trimmed) ==
    IF trimmed = "" THEN scanUp(lines, i - 1, found)
    ELSE IF startsWith(trimmed, "//")
    THEN scanUp(lines, i - 1,
                LineRules(found, FirstMatch(trimmed, CombinedLineAt),
                          FirstMatch(trimmed, AliasLineAt),
                          FirstMatch(trimmed, PatternLineAt),
                          FirstMatch(trimmed, RmPrefixLineAt)))
    ELSE afterBlock(lines, i,
                    BlockCombined(trimmed, found,
                                  FirstMatch(trimmed, CombinedBlockAt)))

scanUp(lines, i, found) ==
    IF i < 0 THEN found ELSE scanLine(lines, i, found, trim(lines[i + 1]))

generateAliasFromRmPrefix(varName, prefix) ==
    LET name == IF startsWith(varName, "--")
                THEN Sub(varName, 3, Len(varName)) ELSE varName
        normalizedPrefix == IF endsWith(prefix, "-") THEN prefix
                            ELSE prefix \o "-"
    IN  IF startsWith(name, normalizedPrefix)
        THEN Sub(name, Len(normalizedPrefix) + 1, Len(name))
        ELSE name

\* after the scan: the derived alias and the rm-prefix pattern fill in what
\* no explicit directive gave
explicitFirst(found, property) ==
    [alias |->
        IF Falsy(found.alias) /\ ~Falsy(found.rmPrefix) /\ property # ""
        THEN Some(generateAliasFromRmPrefix(property, found.rmPrefix[1]))
        ELSE found.alias,
     pattern |->
        IF ~Falsy(found.rmPrefixPattern) /\ Falsy(found.pattern)
        THEN found.rmPrefixPattern
        ELSE found.pattern]

\* extractAliasAndPatternFromDecl(css, decl) for a declaration with a
\* location: decl.loc.start.line is line, decl.property is property
extractAliasAndPatternFromDecl(css, line, property) ==
    explicitFirst(scanUp(split(css, "\n"), line - 2, NothingFound), property)

(***************************************************************************)
(* indexer.ts: TokenIndex.extractAliasAndPattern, the method the walker    *)
(* calls for the direct declarations of a theme block.  st holds its       *)
(* variables alias, pattern, rmPrefix and rmPrefixPattern; the regular     *)
(* expressions are those of the function above, letter for letter.         *)
(***************************************************************************)
\* a line that starts with '//': the first of the four ifs whose condition
\* holds assigns and continues
themeLineComment(st, combinedMatch, aliasMatch, patternMatch, rmPrefixMatch) ==
    CASE combinedMatch # Null /\ Falsy(st.alias) ->
            [alias |-> Some(combinedMatch[1]),
             pattern |-> Some(trim(combinedMatch[2])),
             rmPrefix |-> st.rmPrefix, rmPrefixPattern |-> st.rmPrefixPattern]
      [] ~(combinedMatch # Null /\ Falsy(st.alias))
            /\ aliasMatch # Null /\ Falsy(st.alias) ->
            [alias |-> Some(aliasMatch[1]), pattern |-> st.pattern,
             rmPrefix |-> st.rmPrefix, rmPrefixPattern |-> st.rmPrefixPattern]
      [] ~(combinedMatch # Null /\ Falsy(st.alias))
            /\ ~(aliasMatch # Null /\ Falsy(st.alias))
            /\ patternMatch # Null /\ Falsy(st.pattern) ->
            [alias |-> st.alias, pattern |-> Some(trim(patternMatch[1])),
             rmPrefix |-> st.rmPrefix, rmPrefixPattern |-> st.rmPrefixPattern]
      [] ~(combinedMatch # Null /\ Falsy(st.alias))
            /\ ~(aliasMatch # Null /\ Falsy(st.alias))
            /\ ~(patternMatch # Null /\ Falsy(st.pattern))
            /\ rmPrefixMatch # Null /\ Falsy(st.rmPrefix) ->
            [alias |-> st.alias, pattern |-> st.pattern,
             rmPrefix |-> Some(rmPrefixMatch[1]),
             rmPrefixPattern |->
                IF rmPrefixMatch[2] # Null /\ rmPrefixMatch[2][1] # ""
                THEN Some(trim(rmPrefixMatch[2][1]))
                ELSE st.rmPrefixPattern]
      [] OTHER -> st

\* a line that does not start with '//' and on which the combined match did
\* not continue: the old-format alias, the pattern and the rm-prefix ifs,
\* one after the other
themeBlockComment(st, t, aliasMatch, patternMatch, rmPrefixMatch) ==
    [alias |->
        IF includes(t, "@alias") /\ aliasMatch # Null /\ Falsy(st.alias)
        THEN Some(aliasMatch[1]) ELSE st.alias,
     pattern |->
        IF includes(t, "@pattern") /\ patternMatch # Null
            /\ Falsy(st.pattern)
        THEN Some(trim(patternMatch[1])) ELSE st.pattern,
     rmPrefix |->
        IF includes(t, "@rm-prefix") /\ rmPrefixMatch # Null
            /\ Falsy(st.rmPrefix)
        THEN Some(rmPrefixMatch[1]) ELSE st.rmPrefix,
     rmPrefixPattern |->
        IF includes(t, "@rm-prefix") /\ rmPrefixMatch # Null
            /\ Falsy(st.rmPrefix)
            /\ rmPrefixMatch[2] # Null /\ rmPrefixMatch[2][1] # ""
        THEN Some(stripCommentEnd(rmPrefixMatch[2][1]))
        ELSE st.rmPrefixPattern]

\* for (let i = declLine - 1; i >= 0; i--): n is the number of the line
\* lines[i], counted from 1
RECURSIVE themeScan(_, _, _)
themeLine(lines, n, st, trimmed, combinedMatch) ==
    IF trimmed = "" THEN themeScan(lines, n - 1, st)
    ELSE IF startsWith(trimmed, "//")
    THEN themeScan(lines, n - 1,
                   themeLineComment(st, FirstMatch(trimmed, CombinedLineAt),
                                    FirstMatch(trimmed, AliasLineAt),
                                    FirstMatch(trimmed, PatternLineAt),
                                    FirstMatch(trimmed, RmPrefixLineAt)))
    ELSE IF includes(trimmed, "@alias") /\ combinedMatch # Null
              /\ Falsy(st.alias)
    THEN themeScan(lines, n - 1,
                   [st EXCEPT !.alias = Some(combinedMatch[1]),
                              !.pattern =
                                  Some(stripCommentEnd(combinedMatch[2]))])
    ELSE IF \/ startsWith(trimmed, "/*") \/ endsWith(trimmed, "*/")
            \/ startsWith(trimmed, "*")
    THEN themeScan(lines, n - 1,
                   themeBlockComment(st, trimmed,
                                     FirstMatch(trimmed, AliasBlockAt),
                                     FirstMatch(trimmed, PatternBlockAt),
                                     FirstMatch(trimmed, RmPrefixBlockAt)))
    ELSE themeBlockComment(st, trimmed, FirstMatch(trimmed, AliasBlockAt),
                           FirstMatch(trimmed, PatternBlockAt),
                           FirstMatch(trimmed, RmPrefixBlockAt))

themeScan(lines, n, st) ==
    IF n < 1 THEN st
    ELSE themeLine(lines, n, st, trim(lines[n]),
                   FirstMatch(trim(lines[n]), CombinedBlockAt))

\* extractAliasAndPattern that forgets the pattern of the rm-prefix
\* directive
extractAliasAndPatternNoRmPattern(css, line, property) ==
    LET st == themeScan(split(css, "\n"), line - 1, NothingFound)
    IN  [alias |->
            IF Falsy(st.alias) /\ ~Falsy(st.rmPrefix) /\ property # ""
            THEN Some(generateAliasFromRmPrefix(property, st.rmPrefix[1]))
            ELSE st.alias,
         pattern |-> st.pattern]

\* this.extractAliasAndPattern(css, decl) for a declaration with a
\* location: decl.loc.start.line is line, decl.property is property
extractAliasAndPattern(css, line, property) ==
    LET st == themeScan(split(css, "\n"), line - 1, NothingFound)
    IN  [alias |->
            IF Falsy(st.alias) /\ ~Falsy(st.rmPrefix) /\ property # ""
            THEN Some(generateAliasFromRmPrefix(property, st.rmPrefix[1]))
            ELSE st.alias,
         pattern |->
            IF ~Falsy(st.rmPrefixPattern) /\ Falsy(st.pattern)
            THEN st.rmPrefixPattern
            ELSE st.pattern]

(***************************************************************************)
(* Direct calls of the pure functions, on bounded sets of arguments        *)
(***************************************************************************)
\* hex digits in both letter cases
HexChars == {"a", "B", "0"}

HexDigits3 == {a \o b \o c : a \in HexChars, b \in HexChars, c \in HexChars}

\* colour literals of 3, 4, 6 and 8 digits, and texts that are none
HexInputs ==
    {"#" \o d \o e : d \in HexDigits3, e \in HexChars \cup {""}}
        \cup {"#" \o d \o e : d \in HexDigits3, e \in HexDigits3}
        \cup {"#" \o d \o e : d \in HexDigits3, e \in {"aaB0F", "B0000", "0Ab9c"}}
        \cup {"#", "#aB", "#aB0aB", "#aB0aB0a", "#aB0aB0aB0", "#aBg", "aB0",
              "# aB0"}

VarFallbacks ==
    {"", ",1px", ", a b ", ", a\nb", ",\n#FFF", ", var(--y , 2px)", ",",
     ") var(--z", ", 1px) var(--z"}

VarInputs ==
    {f \o w \o n \o w \o fb \o ")" :
        f \in {"var(", "VAR(", "var ("}, w \in {"", " "},
        n \in {"--x", "--A_b-1", "x", "--"}, fb \in VarFallbacks}

DimensionInputs ==
    {i \o f \o u :
        i \in {"0", "16", "007", ""},
        f \in {"", ".0", ".50", ".12346", ".00001", ".99996", "."},
        u \in {"px", "PX", "Rem", "em", "%", "dvh", "pt", ""}}

ColorInputs ==
    {f \o a :
        f \in {"rgb(", "RGBA(", "hsl(", "Hsla(", "rgb ("},
        a \in {"0,0,0)", " 0 , 128,  255 )", "0 0 0 / 50%)", "1,2\n,3)",
               "var(--x), 0, 0)"}}

OtherInputs ==
    {"", " ", "solid", "Red", "calc(1px + 2px)", "0 0  1px  BLACK",
     "inset 0 0", "a ,  b", "a\t\tb , c", ",", " , a", "a ,",
     "linear-gradient( to  right , #FFF ,#000 )", "Box-Shadow  x",
     "1px  solid", "16 px", "1e3px", "#FFF , #ABC"}

\* the argument also with white space around it
Padded(S) == S \cup {" " \o v \o "\t" : v \in S}

NormalizeInputs ==
    HexInputs \cup Padded(VarInputs \cup DimensionInputs \cup ColorInputs
                              \cup OtherInputs)

\* lines that stand above a declaration, each with the directive it is meant
\* to carry ("" for none): kind is blank, comment or code
Line(text, kind, alias, pattern, rmPrefix, rmPattern) ==
    [text |-> text, kind |-> kind, alias |-> alias, pattern |-> pattern,
     rmPrefix |-> rmPrefix, rmPattern |-> rmPattern]

LineSamples ==
    {Line("  // @alias xl", "comment", "xl", "", "", ""),
     Line("  // @alias big [%]", "comment", "big", "[%]", "", ""),
     Line("  /* @alias blk */", "comment", "blk", "", "", ""),
     Line("  /* @alias wide [w] */", "comment", "wide", "[w]", "", ""),
     Line("  // @pattern calc(%)", "comment", "", "calc(%)", "", ""),
     Line("  /* @pattern [p] */", "comment", "", "[p]", "", ""),
     Line("  /* @rm-prefix radius */", "comment", "", "", "radius", ""),
     Line("  // @rm-prefix radius- [r]", "comment", "", "", "radius-", "[r]"),
     Line("  /* @rm-prefix color (%) */", "comment", "", "", "color", "(%)"),
     Line("  // @rm-prefix color-", "comment", "", "", "color-", ""),
     Line("  /* note */", "comment", "", "", "", ""),
     Line("", "blank", "", "", "", ""),
     Line("  --prev: 1px;", "code", "", "", "", ""),
     Line("  --prev: 1px; /* @alias foo */", "code", "foo", "", "", "")}

\* how many lines stand between the opening of the block and the declaration
MaxAbove == 3

AboveSamples == UNION {[1..n -> LineSamples] : n \in 0..MaxAbove}

PropertySamples == {"--radius-size-s", "--color-primary-500", "--radius"}

RECURSIVE JoinLines(_)
JoinLines(above) ==
    IF above = <<>> THEN ""
    ELSE above[1].text \o "\n" \o JoinLines(Tail(above))

\* the text of a file: a :root block with the lines and then the declaration
CssOf(a) ==
    ":root {\n" \o JoinLines(a.above) \o "  " \o a.property \o ": 1px;\n}"

PureInputs ==
    {[fn |-> "normalize", value |-> v] : v \in NormalizeInputs}
        \cup {[fn |-> "reference", value |-> v] :
                v \in VarInputs \cup OtherInputs}
        \cup {[fn |-> "extract", above |-> ab, property |-> pr] :
                ab \in AboveSamples, pr \in PropertySamples}

\* the index is as constructed and stays so; one argument is chosen
PureInit ==
    /\ map = <<>>
    /\ ready = FALSE
    /\ mtimes = EmptyFn
    /\ fileInfos = EmptyFn
    /\ disk = [f \in Files |-> Missing]
    /\ clock = 1
    /\ classWhitelist = <<>>
    /\ pc = [p \in Procs |-> "idle"]
    /\ op = [p \in Procs |-> "none"]
    /\ files = [p \in Procs |-> <<>>]
    /\ idx = [p \in Procs |-> 0]
    /\ io = [p \in Procs |-> NoIO]
    /\ statMtime = [p \in Procs |-> 0]
    /\ seen = [p \in Procs |-> EmptyFn]
    /\ solo = [p \in Procs |-> FALSE]
    /\ started = 0
    /\ before = [files |-> {}, rebuild |-> FALSE, map |-> <<>>, last |-> 0,
                 disk |-> disk]
    /\ clean = FALSE
    /\ arg \in PureInputs
    /\ result = <<>>
    /\ returned = NoReturn

\* normalizeCssValue(v)
CallNormalize ==
    /\ arg.fn = "normalize"
    /\ result = <<>>
    /\ result' = <<normalizeCssValue(arg.value)>>
    /\ UNCHANGED <<indexVars, procVars, histVars, disk, clock, classWhitelist,
                   arg, returned>>

\* normalizeCssValue of the string that normalizeCssValue(v) returned
CallNormalizeAgain ==
    /\ arg.fn = "normalize"
    /\ Len(result) = 1
    /\ result[1] # Null
    /\ result' = Append(result, normalizeCssValue(result[1][1]))
    /\ UNCHANGED <<indexVars, procVars, histVars, disk, clock, classWhitelist,
                   arg, returned>>

\* extractAliasAndPatternFromDecl(css, decl) for the declaration that stands
\* on the line after the opening line and the lines above it
CallExtract ==
    /\ arg.fn = "extract"
    /\ result = <<>>
    /\ result' = <<extractAliasAndPatternFromDecl(CssOf(arg),
                                                  Len(arg.above) + 2,
                                                  arg.property)>>
    /\ UNCHANGED <<indexVars, procVars, histVars, disk, clock, classWhitelist,
                   arg, returned>>

\* extractVarReference(value)
CallExtractVarReference ==
    /\ arg.fn = "reference"
    /\ result = <<>>
    /\ result' = <<extractVarReference(arg.value)>>
    /\ UNCHANGED <<indexVars, procVars, histVars, disk, clock, classWhitelist,
                   arg, returned>>

\* this.extractAliasAndPattern(css, decl) for the same text and
\* declaration, as if the declaration stood directly in a theme block
CallExtractAliasAndPattern ==
    /\ arg.fn = "extract"
    /\ Len(result) = 1
    /\ result' = Append(result,
                        extractAliasAndPattern(CssOf(arg), Len(arg.above) + 2,
                                               arg.property))
    /\ UNCHANGED <<indexVars, procVars, histVars, disk, clock, classWhitelist,
                   arg, returned>>

PureNext ==
    \/ CallNormalize
    \/ CallNormalizeAgain
    \/ CallExtractVarReference
    \/ CallExtractAliasAndPattern
    \/ CallExtract

PureSpec == PureInit /\ [][PureNext]_vars

(***************************************************************************)
(* Properties                                                              *)
(***************************************************************************)
Range(seq) == {seq[i] : i \in 1..Len(seq)}

\* the positions of the records of a file
RecordsOf(m, file) == {pos \in HitPositions(m) : HitAt(m, pos).file = file}

\* what identifies a record and the value it carries
Facts(hit) == [name |-> hit.name, offset |-> hit.offset, value |-> hit.value]

\* the custom-property declarations of a tree that are in scope: the direct
\* children of a theme at-rule or of a rule whose selector group is allowed
RECURSIVE InScopeDecls(_, _)
InScopeDecls(nodes, whitelist) ==
    UNION { (IF \/ n.type = "Atrule" /\ n.name = "theme"
                \/ n.type = "Rule"
                     /\ isAllowedSelector(trim(n.prelude), whitelist)
             THEN {c \in Range(n.children) :
                      c.type = "Declaration" /\ isCustomProp(c)}
             ELSE {})
            \cup InScopeDecls(n.children, whitelist) : n \in Range(nodes) }

Indexable(decl) == ~Falsy(normalizeCssValue(trim(decl.value)))

\* the call read the file (s is its entry of seen)
WasRead(s) == s.kind \in {"parseError", "indexed", "threw"}

\* what a file contributes, given what the call met when it indexed it
Contribution(s) ==
    IF WasRead(s) /\ ~ContentOf(s.content).parseThrows
    THEN {[name |-> d.property, offset |-> d.offset, value |-> trim(d.value)] :
            d \in {d \in InScopeDecls(ContentOf(s.content).ast,
                                      getClassWhitelist(classWhitelist)) :
                      Indexable(d)}}
    ELSE {}

\* the records of the file are exactly its contribution, each once
HoldsExactly(file, s) ==
    /\ {Facts(HitAt(map, pos)) : pos \in RecordsOf(map, file)} = Contribution(s)
    /\ Cardinality(RecordsOf(map, file)) = Cardinality(Contribution(s))

\* call p has returned, no call has started since, and none overlapped it
ReturnedAlone(p, kind) == pc[p] = "done" /\ op[p] = kind /\ solo[p]

\* call p has returned or thrown, no call has started since, and none
\* overlapped it
EndedAlone(p, kind) ==
    pc[p] \in {"done", "failed"} /\ op[p] = kind /\ solo[p]

\* C1: when onFileChange(path) has run to completion with no other call
\* overlapping it, the records of path in the reverse map are exactly those
\* derived from the content it read: no record of the previous content is
\* left, and every in-scope declaration with an indexable value is there once.
C1_OnFileChangeRederives ==
    \A p \in Procs :
        ReturnedAlone(p, "change") =>
            HoldsExactly(files[p][1], seen[p][files[p][1]])

\* a file that had entries was rewritten from #123456 to #ABC and re-indexed
C1_Witness ==
    \E p \in Procs :
        /\ ReturnedAlone(p, "change")
        /\ files[p] = <<FileA>>
        /\ FileA \in before.files
        /\ seen[p][FileA] = [kind |-> "indexed", content |-> "x2"]
        /\ RecordsOf(map, FileA) # {}
        /\ \A i \in 1..Len(findByValue(map, "#123456")) :
              findByValue(map, "#123456")[i].file # FileA
        /\ Len(findByValue(map, "#aabbcc")) = 1
        /\ findByValue(map, "#aabbcc")[1].name = "--x"

\* C2: in every reachable state, whatever the interleaving of build() and
\* onFileChange() calls, no two records of the reverse map, in the same
\* bucket or in different ones, have the same (file, name, offset).
C2_NoDuplicateTriple ==
    \A p1, p2 \in HitPositions(map) :
        p1 # p2 => ~SameTriple(HitAt(map, p1), HitAt(map, p2))

\* C3: after a build() that ran to completion without overlap, the reverse
\* map, the modification times and the file summaries hold entries only for
\* files of the source set that build resolved.
C3_BuildKeepsOnlyResolved ==
    \A p \in Procs :
        ReturnedAlone(p, "build") => FilesWithEntries \subseteq Range(files[p])

\* a build has returned that started with entries of a file it did not resolve
C3_Witness ==
    \E p \in Procs :
        /\ ReturnedAlone(p, "build")
        /\ ~(before.files \subseteq Range(files[p]))
        /\ map # <<>>

\* C4: isReady() is false at construction; it becomes true only in a step
\* in which a build() returns, and once true it stays true whatever calls
\* follow.
C4_ReadyLifecycle ==
    /\ ~ready
    /\ [][/\ ready => ready'
          /\ (~ready /\ ready') =>
                \E p \in Procs :
                    op[p] = "build" /\ pc[p] # "done" /\ pc'[p] = "done"]_vars

\* the index is ready while a later build(), having cleared the maps, is
\* still in flight
C4_Witness ==
    /\ ready
    /\ map = <<>>
    /\ before.map # <<>>
    /\ \E p \in Procs : op[p] = "build" /\ Active(p)

\* C5: build() and onFileChange() never propagate a failure, whatever the
\* files and the configuration values are.
C5_NeverFails == \A p \in Procs : pc[p] # "failed"

\* two maps hold the same records: the same keys, under each key the same
\* records in the same number, none of them twice
SameRecords(m1, m2) ==
    /\ MapKeys(m1) = MapKeys(m2)
    /\ \A k \in MapKeys(m1) :
          /\ Len(MapGet(m1, k)) = Len(MapGet(m2, k))
          /\ Range(MapGet(m1, k)) = Range(MapGet(m2, k))
          /\ Cardinality(Range(MapGet(m1, k))) = Len(MapGet(m1, k))

\* C6: a build() that follows a build(), with no file changed since the
\* first one started and no other call in between, leaves the index with the
\* records the first one left: the same keys, the same number of records
\* under each key, no record twice.
C6_RebuildSameRecords ==
    \A p \in Procs :
        (EndedAlone(p, "build") /\ before.rebuild /\ clean) =>
            SameRecords(map, before.map)

\* a second build in a row has returned, with three records under one key
C6_Witness ==
    \E p \in Procs :
        /\ ReturnedAlone(p, "build")
        /\ before.rebuild
        /\ clean
        /\ Len(findByValue(map, "#123456")) = 3

\* the entries of the files other than file are the same before and after
\* the step, and so is the ready flag
FrameOK(file) ==
    /\ ready' = ready
    /\ \A g \in Files \ {file} :
          /\ (g \in DOMAIN mtimes') = (g \in DOMAIN mtimes)
          /\ g \in DOMAIN mtimes => mtimes'[g] = mtimes[g]
          /\ (g \in DOMAIN fileInfos') = (g \in DOMAIN fileInfos)
          /\ g \in DOMAIN fileInfos => fileInfos'[g] = fileInfos[g]
          /\ \A k \in MapKeys(map) \cup MapKeys(map') :
                SelectSeq(findByValue(map', k), LAMBDA x : x.file = g)
                    = SelectSeq(findByValue(map, k), LAMBDA x : x.file = g)

\* the step is a step of an onFileChange call p
ChangeStep(p) == op'[p] = "change" /\ pc'[p] # pc[p]

\* C7: every step of onFileChange(path), from the purge to the return,
\* leaves the records of every other file (and their order in each bucket),
\* its modification time, its summary, and the ready flag as they were.
C7_OnFileChangeFrame ==
    [][\A p \in Procs : ChangeStep(p) => FrameOK(files'[p][1])]_vars

\* FileA was re-indexed next to the two records FileB keeps under the key
C7_Witness ==
    \E p \in Procs :
        /\ ReturnedAlone(p, "change")
        /\ files[p] = <<FileA>>
        /\ FileB \in before.files
        /\ LET arr == findByValue(map, "#123456")
           IN  /\ Len(arr) = 3
               /\ arr[1].file = FileB
               /\ arr[2].file = FileB
               /\ arr[3].file = FileA

\* the step is the one in which an onFileChange(path) that runs alone
\* resumes after a stat or a read of path that failed
ResumesUnreadable(p) ==
    /\ op[p] = "change"
    /\ solo[p]
    /\ pc[p] \in {"statDone", "readDone"}
    /\ ~io[p].ok
    /\ pc'[p] # pc[p]

\* C8: when path cannot be stat'd or read, onFileChange(path) still returns,
\* and it leaves no record, no modification time and no summary of path,
\* and the entries of the other files as they were.
C8_UnreadableContributesNothing ==
    [][\A p \in Procs :
          /\ ChangeStep(p) => FrameOK(files'[p][1])
          /\ ResumesUnreadable(p) =>
                LET path == files[p][1]
                IN  /\ pc'[p] = "done"
                    /\ path \notin DOMAIN mtimes'
                    /\ path \notin DOMAIN fileInfos'
                    /\ RecordsOf(map', path) = {}]_vars

\* a file that had entries is gone from the disk and from the index, next
\* to the records of another file
C8_Witness ==
    \E p \in Procs :
        /\ ReturnedAlone(p, "change")
        /\ seen[p][files[p][1]].kind = "unreadable"
        /\ files[p][1] \in before.files
        /\ files[p][1] \notin FilesWithEntries
        /\ map # <<>>

\* a file that was read and whose content fails to parse has no record and
\* no summary; a file that parses and has no in-scope custom property has
\* no record and a summary with tokenCount = 0
ParseFailureVersusEmpty(p) ==
    \A f \in DOMAIN seen[p] :
        LET s == seen[p][f]
            css == ContentOf(s.content)
        IN  WasRead(s) =>
              /\ css.parseThrows =>
                    /\ RecordsOf(map, f) = {}
                    /\ f \notin DOMAIN fileInfos
              /\ (/\ ~css.parseThrows
                  /\ InScopeDecls(css.ast,
                         getClassWhitelist(classWhitelist)) = {}) =>
                    /\ RecordsOf(map, f) = {}
                    /\ f \in DOMAIN fileInfos
                    /\ fileInfos[f].tokenCount = 0

\* C9: once a call that ran alone has ended, a file it read whose content
\* fails to parse has no record and no summary, and a file it read that
\* parses and has no in-scope custom property has a summary with
\* tokenCount = 0.
C9_ParseFailureVersusEmpty ==
    \A p \in Procs :
        (pc[p] \in {"done", "failed"} /\ solo[p]) => ParseFailureVersusEmpty(p)

\* the same for the calls that returned: what is left of C9 when no
\* whitelist pattern makes getClassWhitelist throw
C9_WhenCallReturns ==
    \A p \in Procs : (pc[p] = "done" /\ solo[p]) => ParseFailureVersusEmpty(p)

\* onFileChange has returned on a file that had entries and no longer parses
C9_ParseFailureReached ==
    \E p \in Procs :
        /\ ReturnedAlone(p, "change")
        /\ files[p] = <<FileA>>
        /\ FileA \in before.files
        /\ seen[p][FileA] = [kind |-> "parseError", content |-> "bad"]
        /\ ready

\* C10: in every reachable state every key of the reverse map is a
\* non-empty string, and every record under key k has a value that
\* normalizes to k; no record has a value that is not indexable.
C10_KeysAreNormalizedValues ==
    \A pos \in HitPositions(map) :
        /\ KeyAt(map, pos) # ""
        /\ ~Falsy(normalizeCssValue(HitAt(map, pos).value))
        /\ normalizeCssValue(HitAt(map, pos).value) = Some(KeyAt(map, pos))

\* the theme file, with its empty value, is indexed, and 16.0px is under 16px
C10_Witness ==
    \E p \in Procs :
        /\ pc[p] = "done"
        /\ FileA \in DOMAIN seen[p]
        /\ seen[p][FileA] = [kind |-> "indexed", content |-> "thm"]
        /\ Len(findByValue(map, "16px")) = 1
        /\ findByValue(map, "16px")[1].value = "16.0px"
        /\ Len(findByValue(map, "var(--x)")) = 1

\* the names asked of findByReferencedVar
VarNames == {"--x", "--t", "--p", "--none"}

\* k is 'var(' + a prefixed identifier + ')'
IsVarKey(k) ==
    /\ startsWith(k, "var(--")
    /\ endsWith(k, ")")
    /\ IdentEnd(k, 5) = Len(k) - 1

PartSamples ==
    {":root", "html", ".card", ".dark", "[data-theme=\"dark\"]", "body"}

\* selector groups, as the sequences of their parts
GroupSamples ==
    {<<a>> : a \in PartSamples}
        \cup {<<a, b>> : a \in PartSamples, b \in PartSamples}
        \cup {<<":root", b, "html">> : b \in PartSamples}

\* the text of a group whose parts are separated by sep
RECURSIVE JoinParts(_, _)
JoinParts(parts, sep) ==
    IF Len(parts) = 1 THEN parts[1]
    ELSE parts[1] \o sep \o JoinParts(Tail(parts), sep)

\* the records of a declaration of a file
RecordsAt(file, name, offset) ==
    {pos \in RecordsOf(map, file) :
        HitAt(map, pos).name = name /\ HitAt(map, pos).offset = offset}

\* C12: a comma-separated selector group is accepted iff every part, alone,
\* is accepted (the classifier depends on the configuration only, which no
\* step changes, so it is examined before the first call); no record comes
\* from a rule whose group has a part that is not accepted; and once a call
\* that ran alone has indexed the file with `.card, :root` and `:root, html`,
\* the declaration of the first group has no record and that of the second
\* has exactly one.
C12_GroupAcceptedIffEveryPart ==
    /\ (started = 0 /\ ~getClassWhitelistThrows(classWhitelist)) =>
          \A parts \in GroupSamples, sep \in {",", ", ", " , "} :
              isAllowedSelector(JoinParts(parts, sep),
                                getClassWhitelist(classWhitelist))
                <=> \A i \in 1..Len(parts) :
                        isAllowedSelector(parts[i],
                                          getClassWhitelist(classWhitelist))
    /\ \A pos \in HitPositions(map) :
          HitAt(map, pos).source # "theme" =>
              \A part \in Range(SplitComma(HitAt(map, pos).selector, "")) :
                  isAllowedSelector(part, getClassWhitelist(classWhitelist))
    /\ \A p \in Procs, f \in Files :
          (/\ pc[p] = "done"
           /\ solo[p]
           /\ f \in DOMAIN seen[p]
           /\ seen[p][f] = [kind |-> "indexed", content |-> "cls"]) =>
              /\ RecordsAt(f, "--z", 40) = {}
              /\ Cardinality(RecordsAt(f, "--g", 70)) = 1

\* the file with the two groups has been indexed by a call that ran alone
C12_Witness ==
    \E p \in Procs :
        /\ pc[p] = "done"
        /\ solo[p]
        /\ FileB \in DOMAIN seen[p]
        /\ seen[p][FileB] = [kind |-> "indexed", content |-> "cls"]
        /\ Len(findByValue(map, "#1e40af")) = 1
        /\ findByValue(map, "#1e40af")[1].selector = ":root,html"
        /\ findByValue(map, "1px") = <<>>

\* part is the root pseudo-class, the document-element tag, or a selector
\* with a data-theme attribute matcher
RootTagOrAttribute(part) ==
    \/ part = ":root"
    \/ part = "html"
    \/ includes(toLowerCase(part), "[data-theme")

\* C13: with an empty class whitelist, after a build() every record that
\* comes from a rule block has a selector whose every part is the root
\* pseudo-class, the document-element tag or a selector with a data-theme
\* attribute matcher: no declaration under a class selector is indexed.
C13_EmptyWhitelistNoClassSelector ==
    \A p \in Procs :
        (classWhitelist = <<>> /\ ReturnedAlone(p, "build")) =>
            \A pos \in HitPositions(map) :
                HitAt(map, pos).source # "theme" =>
                    \A part \in Range(SplitComma(HitAt(map, pos).selector, "")) :
                        RootTagOrAttribute(trim(part))

\* The places of a syntax tree where a custom property is declared, each
\* with the selector and the scope kind its record is to carry: the direct
\* declarations of a theme at-rule, and the declarations of a rule block.
RECURSIVE Sites(_)
Sites(nodes) ==
    UNION {
      (IF n.type = "Atrule" /\ n.name = "theme"
       THEN {[name |-> c.property, offset |-> c.offset, value |-> trim(c.value),
              selector |-> IF trim(n.prelude) = "" THEN "theme"
                           ELSE "theme " \o trim(n.prelude),
              source |-> "theme"] :
                c \in {c \in Range(n.children) :
                          c.type = "Declaration" /\ isCustomProp(c)}}
       ELSE {})
      \cup
      (IF n.type = "Rule"
       THEN {[name |-> c.property, offset |-> c.offset, value |-> trim(c.value),
              selector |-> trim(n.prelude),
              source |-> IF trim(n.prelude) \in {":root", "html"}
                         THEN "root" ELSE "scoped"] :
                c \in {c \in Range(n.children) :
                          c.type = "Declaration" /\ isCustomProp(c)}}
       ELSE {})
      \cup Sites(n.children) : n \in Range(nodes) }

\* what a record says of its declaration
SiteOf(hit) ==
    [name |-> hit.name, offset |-> hit.offset, value |-> hit.value,
     selector |-> hit.selector, source |-> hit.source]

\* C14: in every reachable state every record carries the selector and the
\* scope kind of the place where some version of its file declares it:
\* 'theme' or 'theme ' + prelude and kind theme for a direct declaration of
\* an @theme at-rule; the rule's selector text, with kind root iff that text
\* is exactly ':root' or 'html' and scoped otherwise, for a declaration of
\* a rule block.  No record of kind theme has another selector than 'theme'
\* or one that starts with 'theme '.
C14_ScopeKindFollowsSite ==
    \A pos \in HitPositions(map) :
        LET hit == HitAt(map, pos)
        IN  /\ \E v \in Versions(hit.file) :
                  SiteOf(hit) \in Sites(ContentOf(v).ast)
            /\ hit.source = "theme" =>
                  (hit.selector = "theme" \/ startsWith(hit.selector, "theme "))

\* the theme file is indexed: records of `@theme inline`, of `@theme` and of
\* the rule :root nested in the theme block
C14_Witness ==
    /\ Len(findByValue(map, "var(--x)")) = 1
    /\ findByValue(map, "var(--x)")[1].selector = "theme inline"
    /\ findByValue(map, "var(--x)")[1].source = "theme"
    /\ Len(findByValue(map, "#8b5cf6")) = 1
    /\ findByValue(map, "#8b5cf6")[1].selector = "theme"
    /\ findByValue(map, "#8b5cf6")[1].source = "theme"
    /\ Len(findByValue(map, "16px")) = 1
    /\ findByValue(map, "16px")[1].selector = ":root"
    /\ findByValue(map, "16px")[1].source = "root"

\* C15: normalize is idempotent: when normalize(v) is a string (the empty
\* string counts as not indexable), normalize of that string is that string.
C15_NormalizeIdempotent ==
    (arg.fn = "normalize" /\ Len(result) = 2 /\ ~Falsy(result[1])) =>
        result[2] = result[1]

\* a colour literal: '#' and 3, 4, 6 or 8 hex digits in any letter case
IsColourLiteral(v) ==
    /\ Len(v) \in {4, 5, 7, 9}
    /\ Ch(v, 1) = "#"
    /\ \A i \in 2..Len(v) : Ch(v, i) \in HexDigitSet

\* k is the lower-case 6- or 8-digit form of the literal h, digit by digit
IsExpansionOf(k, h) ==
    LET n == Len(h) - 1
    IN  /\ Ch(k, 1) = "#"
        /\ IF n \in {3, 4}
           THEN /\ Len(k) = 1 + 2 * n
                /\ \A i \in 1..n :
                      /\ Ch(k, 2 * i) = LowerCh(Ch(h, i + 1))
                      /\ Ch(k, 2 * i + 1) = LowerCh(Ch(h, i + 1))
           ELSE /\ Len(k) = 1 + n
                /\ \A i \in 1..n : Ch(k, i + 1) = LowerCh(Ch(h, i + 1))
        /\ \A i \in 2..Len(k) : ~IsUpper(Ch(k, i))

\* the literal h with every digit written twice, in its own letter case
LongFormOf(h) ==
    "#" \o DoubleEach(Sub(h, 2, Len(h)))

\* C16: normalize maps a 3-, 4-, 6- or 8-digit colour literal of any letter
\* case to its lower-case 6- or 8-digit expansion (so equal expansions give
\* equal keys and different expansions different keys), and the doubled long
\* form of a short literal gets the key of the short literal.
C16_HexLiteralKeyIsExpansion ==
    (arg.fn = "normalize" /\ Len(result) >= 1 /\ IsColourLiteral(arg.value)) =>
        /\ result[1] # Null
        /\ IsExpansionOf(result[1][1], arg.value)
        /\ Len(arg.value) \in {4, 5} =>
              normalizeCssValue(LongFormOf(arg.value)) = result[1]

C16_Witness ==
    /\ arg = [fn |-> "normalize", value |-> "#aB0B"]
    /\ result = <<Some("#aabb00bb")>>

\* the comment run above the declaration: the lines below the nearest code
\* line, by index
CommentRun(above) ==
    {i \in 1..Len(above) : \A j \in i..Len(above) : above[j].kind # "code"}

AliasLines(above) == {i \in CommentRun(above) : above[i].alias # ""}

RmPrefixLines(above) == {i \in CommentRun(above) : above[i].rmPrefix # ""}

\* the greatest element of a non-empty set of line indices: the line nearest
\* to the declaration
Nearest(S) == CHOOSE i \in S : \A j \in S : j <= i

\* the lines that give an explicit pattern: a pattern directive, or the
\* pattern of the alias directive that is in force (the nearest one)
PatternLines(above) ==
    {i \in CommentRun(above) :
        /\ above[i].pattern # ""
        /\ above[i].alias # "" => i = Nearest(AliasLines(above))}

\* the extractor was called on the lines above and returned r
Extracted(above, r) ==
    /\ arg.fn = "extract"
    /\ arg.above = above
    /\ result = <<r>>

\* C17: when the comment run holds an alias directive and a remove-prefix
\* directive, in either order, the alias returned is an explicit one, not the
\* derived one; when it holds an explicit pattern and a remove-prefix
\* directive with a pattern, the pattern returned is an explicit one.
C17_ExplicitBeforeRemovePrefix ==
    (arg.fn = "extract" /\ Len(result) = 1
        /\ RmPrefixLines(arg.above) # {}) =>
        /\ AliasLines(arg.above) # {} =>
              \E i \in AliasLines(arg.above) :
                  result[1].alias = Some(arg.above[i].alias)
        /\ (/\ PatternLines(arg.above) # {}
            /\ arg.above[Nearest(RmPrefixLines(arg.above))].rmPattern # "") =>
              \E i \in PatternLines(arg.above) :
                  result[1].pattern = Some(arg.above[i].pattern)

\* the alias half of C17 on its own: with an alias directive and a
\* remove-prefix directive in the comment run, the alias is an explicit one
C17_ExplicitAliasKept ==
    (arg.fn = "extract" /\ Len(result) = 1
        /\ RmPrefixLines(arg.above) # {} /\ AliasLines(arg.above) # {}) =>
        \E i \in AliasLines(arg.above) :
            result[1].alias = Some(arg.above[i].alias)

\* the prefix as written, without the separator when it ends with one
PrefixStem(P) ==
    IF endsWith(P, "-") THEN Sub(P, 1, Len(P) - 1) ELSE P

\* the property name without '--' and without the stem and its separator
DerivedAlias(property, P) ==
    IF startsWith(property, "--" \o PrefixStem(P) \o "-")
    THEN Sub(property, Len(PrefixStem(P)) + 4, Len(property))
    ELSE Sub(property, 3, Len(property))

\* C18: with a remove-prefix directive P and no alias directive in the comment
\* run, the alias is the property name without '--' and without a leading
\* 'P-' (P written with or without the separator); without an explicit
\* pattern, the pattern argument of the directive is the pattern returned.
C18_AliasDerivedFromRemovePrefix ==
    (arg.fn = "extract" /\ Len(result) = 1
        /\ RmPrefixLines(arg.above) # {} /\ AliasLines(arg.above) = {}) =>
        /\ result[1].alias =
              Some(DerivedAlias(arg.property,
                      arg.above[Nearest(RmPrefixLines(arg.above))].rmPrefix))
        /\ (/\ PatternLines(arg.above) = {}
            /\ arg.above[Nearest(RmPrefixLines(arg.above))].rmPattern # "") =>
              result[1].pattern =
                  Some(arg.above[Nearest(RmPrefixLines(arg.above))].rmPattern)

\* the prefix written with its separator, and a pattern argument
C18_Witness ==
    /\ arg.fn = "extract"
    /\ arg.property = "--radius-size-s"
    /\ Len(arg.above) = 2
    /\ arg.above[1].kind = "code"
    /\ arg.above[2].rmPrefix = "radius-" /\ arg.above[2].rmPattern = "[r]"
    /\ result = <<[alias |-> Some("size-s"), pattern |-> Some("[r]")]>>

CurrentContribution(file) ==
    IF disk[file].exists
    THEN Contribution([kind |-> "indexed", content |-> disk[file].content])
    ELSE {}

\* what the file's records say
RecordFacts(file) == {Facts(HitAt(map, pos)) : pos \in RecordsOf(map, file)}

\* call p is the onFileChange(path) that started last, it started while
\* another call was in flight, every call has run to completion, and the file
\* has not been written since p started
LastChangeOverlapped(p, path) ==
    /\ before.last = p
    /\ op[p] = "change"
    /\ files[p] = <<path>>
    /\ ~solo[p]
    /\ \A q \in Procs : pc[q] \in {"idle", "done"}
    /\ pc[p] = "done"
    /\ disk[path] = before.disk[path]

\* C20: when an onFileChange(path) has overlapped another call and all calls
\* have run to completion, the records of path are those of one version of
\* its content, the one on disk since before that onFileChange started: no
\* record of a replaced content remains and none of the current one is
\* missing.
C20_OverlapLeavesOneVersion ==
    \A p \in Procs : \A path \in Files :
        LastChangeOverlapped(p, path) =>
            RecordFacts(path) = CurrentContribution(path)

\* a build that resolved the files fs and met sn has what it indexed in the
\* reverse map m: every file it read and parsed has the records of the
\* content it read
BuiltInIndex(fs, sn, m) ==
    \A f \in Range(fs) :
        (f \in DOMAIN sn /\ sn[f].kind = "indexed") =>
            Contribution(sn[f]) \subseteq
                {Facts(HitAt(m, pos)) : pos \in RecordsOf(m, f)}

\* C21: in the step in which isReady() first becomes true, a build() returns
\* and every file of its source set that it read and parsed has its records
\* in the reverse map, also when two build() calls overlap.
C21_ReadyMeansBuilt ==
    [][(~ready /\ ready') =>
          \E p \in Procs :
              /\ op[p] = "build" /\ pc[p] # "done" /\ pc'[p] = "done"
              /\ BuiltInIndex(files'[p], seen'[p], map')]_vars

\* C22: the indexing step of onFileChange(path) is never ended by the
\* modification-time guard, whatever other build() or onFileChange() is in
\* flight.
C22_ChangeNeverSkipped ==
    \A p \in Procs :
        op[p] = "change" =>
            \A f \in DOMAIN seen[p] : seen[p][f].kind # "skipped"

\* C23: the directive nearest to the declaration wins: the alias returned is
\* that of the nearest alias directive of the comment run, and the pattern
\* returned is that of the nearest directive that gives an explicit pattern,
\* also when a combined alias+pattern directive stands further up.
C23_NearestDirectiveWins ==
    (arg.fn = "extract" /\ Len(result) = 1) =>
        /\ AliasLines(arg.above) # {} =>
              result[1].alias =
                  Some(arg.above[Nearest(AliasLines(arg.above))].alias)
        /\ PatternLines(arg.above) # {} =>
              result[1].pattern =
                  Some(arg.above[Nearest(PatternLines(arg.above))].pattern)

\* the lines of the comment run, in order: those below the nearest code line
RunOnly(above) ==
    SubSeq(above, Len(above) - Cardinality(CommentRun(above)) + 1, Len(above))

\* C24: the scan reads only the blank and comment lines immediately above the
\* declaration: what it returns is what it returns when the nearest code line
\* and all lines above it are not there, so nothing is taken from them.
C24_OnlyCommentRunRead ==
    (arg.fn = "extract" /\ Len(result) = 1) =>
        result[1] =
            extractAliasAndPatternFromDecl(
                CssOf([above |-> RunOnly(arg.above),
                       property |-> arg.property]),
                Len(RunOnly(arg.above)) + 2, arg.property)

\* C25: the sequence findByValue returned is a copy or a read-only view: no
\* later step of a build() or onFileChange() changes it.
C25_ReturnedSequenceKept ==
    [][returned # NoReturn => returned'.hits = returned.hits]_vars

\* how many parentheses are open after the first i characters of s
Depth(s, i) ==
    Cardinality({j \in 1..i : Ch(s, j) = "("})
        - Cardinality({j \in 1..i : Ch(s, j) = ")"})

\* s is one single var() expression: the parenthesis that var( opens is
\* closed by the last character of s and not before
SingleVarExpression(s) ==
    /\ Len(s) >= 5
    /\ toLowerCase(Sub(s, 1, 4)) = "var("
    /\ Ch(s, Len(s)) = ")"
    /\ \A i \in 4..(Len(s) - 1) : Depth(s, i) > 0

\* C26: a value is keyed as var(<name>), and has a referencedVar, only when
\* it is one single var() expression; a value of more than one expression
\* and a literal get neither.
C26_VarKeyOnlyForSingleExpression ==
    /\ (arg.fn = "normalize" /\ Len(result) >= 1 /\ result[1] # Null
          /\ IsVarKey(result[1][1])) => SingleVarExpression(trim(arg.value))
    /\ (arg.fn = "reference" /\ Len(result) = 1 /\ result[1] # Null) =>
          SingleVarExpression(arg.value)

\* C27: whenever a file has a FileSummary, its tokenCount is the number of
\* records of that file in the reverse map.
C27_TokenCountIsRecordCount ==
    \A f \in DOMAIN fileInfos :
        fileInfos[f].tokenCount = Cardinality(RecordsOf(map, f))

\* C28: every file that has records, and every file that has a FileSummary,
\* belongs to the configured source set; onFileChange(path) on a path outside
\* it adds neither.
C28_OnlySourceFilesIndexed ==
    /\ \A pos \in HitPositions(map) : HitAt(map, pos).file \in SourceFiles
    /\ DOMAIN fileInfos \subseteq SourceFiles

\* C29: in every reachable state every file that has a record in the reverse
\* map has a FileSummary and a stored modification time, and the summary's
\* lastModified is the stored modification time.
C29_RecordsHaveSummaryAndMtime ==
    \A pos \in HitPositions(map) :
        /\ HitAt(map, pos).file \in DOMAIN fileInfos
        /\ HitAt(map, pos).file \in DOMAIN mtimes
        /\ fileInfos[HitAt(map, pos).file].lastModified
              = mtimes[HitAt(map, pos).file]

\* C30: for every source text and declaration position the two extractors
\* return the same alias and the same pattern.
C30_ExtractorsAgree ==
    (arg.fn = "extract" /\ Len(result) = 2) =>
        /\ result[1].alias = result[2].alias
        /\ result[1].pattern = result[2].pattern

\* both have derived the alias and taken the pattern of a remove-prefix
\* directive that stands above a blank line and a block comment
C30_Witness ==
    /\ arg.fn = "extract"
    /\ arg.property = "--color-primary-500"
    /\ Len(arg.above) = 3
    /\ arg.above[1].rmPrefix = "color" /\ arg.above[1].rmPattern = "(%)"
    /\ arg.above[2].kind = "blank"
    /\ arg.above[3].text = "  /* note */"
    /\ Len(result) = 2
    /\ result[1] = [alias |-> Some("primary-500"), pattern |-> Some("(%)")]
    /\ result[2] = result[1]

=============================================================================
